---- MODULE Spec2Model ----
(***************************************************************************)
(* A model of lyra-tool-discovery's resilience layer (withRetry,           *)
(* fetchWithRetry, calculateBackoff, isRetryableError, getRetryAfter) and  *)
(* of the pipeline orchestrator ToolDiscovery.discover.                    *)
(*                                                                         *)
(* Three state machines share the module; each specification runs one of   *)
(* them and leaves the variables of the others at their idle values:       *)
(*   SpecRetry     one call of withRetry / fetchWithRetry                  *)
(*   SpecBackoff   calculateBackoff applied to drawn inputs                *)
(*   SpecDiscover  one call of ToolDiscovery.discover                      *)
(***************************************************************************)
EXTENDS Integers, Sequences, FiniteSets, TLC

VARIABLES
    \* ---- withRetry / fetchWithRetry (src/src/index.ts 268-346) ----
    rMode,        \* "fn": withRetry over an arbitrary operation; "fetch": fetchWithRetry
    rOptions,     \* the RetryOptions argument as passed by the caller
    rPc,          \* "enter" | "call" | "sleep" | "resolved" | "rejected" | "idle"
    attempt,      \* the loop variable of withRetry
    lastError,    \* withRetry's lastError (NoError is undefined)
    delayMs,      \* the delay handed to sleep() while rPc = "sleep"
    rSettled,     \* what the promise settled with: a value or the thrown error
    calls,        \* number of invocations of fn so far
    failures,     \* how many of them raised
    successes,    \* how many of them returned
    lastOutcome,  \* outcome of the latest invocation of fn (and of fetch)
    sleeps,       \* number of sleep() calls
    totalWaitMs,  \* sum of the delays slept so far
    hintedFailures, \* invocations that raised a failure carrying a non-zero retry-after
    onRetryCalls, \* number of onRetry callbacks made
    retryableFailures, \* invocations that raised a RateLimitError or NetworkError
    \* ---- calculateBackoff as a pure function (src/src/index.ts 253-263) ----
    bPc, bIn, bOut,
    \* ---- ToolDiscovery.discover (src/src/index.ts 45-121) ----
    dPc,              \* "Collecting" | "Classifying" | "Done" | "Raised" | "idle"
    dOptions,         \* the DiscoveryOptions argument
    dCredentials,     \* whether the AI client has an API key configured
    dAwait,           \* the call discover is suspended on: "none" | "adapter" | "ai"
    dSrcIdx,          \* index into sources of the adapter call to make next
    tools,            \* the tools collected so far
    mcpTools,         \* tools that passed both filters
    dIdx,             \* index of the candidate being classified
    results,          \* the results array
    dReturned,        \* what discover resolved with
    aiCalls,          \* ids of the tools handed to analyzeAndDecide, in call order
    aiOutcomes,       \* how each settled analyzeAndDecide call ended: "resolved" or the error
    aiInFlight,       \* analyzeAndDecide calls started and not yet settled
    adapterInFlight,  \* searchMCPServers calls started and not yet settled
    failedLog,        \* the "Failed to analyze" lines written by line 116
    adapterThrew,     \* indexes into sources of the adapter calls that threw
    dPerSource,       \* what each entry of sources contributed, in request order
    dHits,            \* what each adapter's search found, before its own truncation
    quickImportCalls, \* number of generateQuickImport calls
    adapterCalls,     \* sources whose adapter was called, in call order
    dryLogged,        \* ids of the tools listed by "[DRY RUN] Would analyze"
    dTrace,           \* the phases entered and the calls started and settled, in order
    \* ---- functions applied to drawn inputs (schemas.ts, errors.ts, adapters) ----
    fPc,              \* which function family is under study, or "idle"
    fIn,              \* the drawn input
    fOut,             \* the results computed so far, one field per function
    \* ---- single-entity operations (analyzeGitHubRepo, analyzeNpmPackage, discoverLlmsTxt) ----
    oPc,              \* position of the operation, or "idle"
    oIn,              \* its arguments and the environment it runs in
    oSt               \* its local state and history

retryVars == <<rMode, rOptions, rPc, attempt, lastError, delayMs, rSettled, calls,
               failures, successes, lastOutcome, sleeps, totalWaitMs, hintedFailures,
               onRetryCalls, retryableFailures>>
backoffVars == <<bPc, bIn, bOut>>
discoverVars == <<dPc, dOptions, dCredentials, dAwait, dSrcIdx, tools, mcpTools,
                  dIdx, results, dReturned, aiCalls, aiOutcomes, aiInFlight,
                  adapterInFlight, failedLog, quickImportCalls, adapterCalls, adapterThrew,
                  dPerSource, dHits, dryLogged, dTrace>>
fnVars == <<fPc, fIn, fOut>>
opVars == <<oPc, oIn, oSt>>
vars == <<retryVars, backoffVars, discoverVars, fnVars, opVars>>

(***************************************************************************)
(* Bounds of the model                                                     *)
(***************************************************************************)
MaxRetriesBound == 2     \* explicit maxRetries values range over -1..MaxRetriesBound
JitterDen == 3           \* Math.random() is drawn from {0/JitterDen .. (JitterDen-1)/JitterDen}
MaxHintSec == 2          \* retry-after hints range over 0..MaxHintSec seconds
MaxBackoffAttempt == 4   \* SpecBackoff draws attempt from 0..MaxBackoffAttempt
MaxTools == 3            \* the searches of one run find at most about MaxTools tools (see CollectOk)
MaxLimit == 2            \* explicit limit values range over 0..MaxLimit

(***************************************************************************)
(* Errors (src/src/errors.ts)                                              *)
(***************************************************************************)
\* An error value.  seq is the invocation that raised it (its identity);
\* note is an annotation added after it was raised ("none" when raised).
Err(kind, hasRetryAfter, retryAfter, seq) ==
    [kind |-> kind, hasRetryAfter |-> hasRetryAfter, retryAfter |-> retryAfter,
     seq |-> seq, note |-> "none"]

NoError == Err("undefined", FALSE, 0, 0)

\* new RateLimitError(provider, retryAfter?)
RateLimitError(hasRetryAfter, retryAfter, seq) ==
    Err("RateLimitError", hasRetryAfter, IF hasRetryAfter THEN retryAfter ELSE 0, seq)

\* new NetworkError(url, status?)
NetworkError(seq) == Err("NetworkError", FALSE, 0, seq)

\* The two error classes the resilience layer is to retry, and the failures
\* that carry a retry-after hint other than 0 (used by the history variables).
RetryableKinds == {"RateLimitError", "NetworkError"}
CarriesHint(error) ==
    error.kind = "RateLimitError" /\ error.hasRetryAfter /\ error.retryAfter # 0

isRetryableErrorTreatingAllAsRetryable(error) == TRUE

isRetryableError(error) ==
    IF error.kind = "RateLimitError" THEN TRUE
    ELSE IF error.kind = "NetworkError" THEN TRUE
    ELSE FALSE


(***************************************************************************)
(* HTTP responses as fetchWithRetry and getRetryAfter read them            *)
(***************************************************************************)
\* A header the code parses with parseInt: absent, an integer, or text that
\* parseInt turns into NaN.
Hdr(kind, val) == [kind |-> kind, val |-> val]
AbsentHdr == Hdr("absent", 0)

Response(status, remaining, retryAfterHdr, resetHdr) ==
    [status |-> status, remaining |-> remaining,
     retryAfter |-> retryAfterHdr, reset |-> resetHdr]

NoResponse == Response(0, "absent", AbsentHdr, AbsentHdr)

\* Date.now() at the time getRetryAfter runs, in ms.
NowMs == 10500

\* An optional number: getRetryAfter's `number | undefined`.
Undef == [def |-> FALSE, val |-> 0]
Num(n) == [def |-> TRUE, val |-> n]

\* a reading that looks at x-ratelimit-reset before retry-after
getRetryAfterResetFirst(response) ==
    IF response.reset.kind = "int" /\ response.reset.val * 1000 > NowMs
    THEN Num((response.reset.val * 1000 - NowMs + 999) \div 1000)
    ELSE IF response.retryAfter.kind = "int"
         THEN Num(response.retryAfter.val)
         ELSE Undef

getRetryAfter(response) ==
    IF response.retryAfter.kind = "int"
    THEN Num(response.retryAfter.val)
    ELSE IF response.reset.kind = "int" /\ response.reset.val * 1000 > NowMs
         THEN Num((response.reset.val * 1000 - NowMs + 999) \div 1000)
         ELSE Undef

(***************************************************************************)
(* Retry policy                                                            *)
(***************************************************************************)
DEFAULT_OPTIONS == [maxRetries |-> 3, baseDelayMs |-> 1000, maxDelayMs |-> 30000]

\* One key of the RetryOptions object: absent, present with a number, or
\* (maxRetries only) present with the value undefined.
Key(kind, val) == [key |-> kind, val |-> val]

BaseDelayValues == {100}
MaxDelayValues == {150}

RetryOptionsSet ==
    [maxRetries : {Key("absent", 0), Key("undefined", 0)}
                    \cup {Key("number", n) : n \in -1..MaxRetriesBound},
     baseDelayMs : {Key("absent", 0)} \cup {Key("number", n) : n \in BaseDelayValues},
     maxDelayMs : {Key("absent", 0)} \cup {Key("number", n) : n \in MaxDelayValues},
     onRetry : BOOLEAN]

\* const opts = { ...DEFAULT_OPTIONS, ...options }: a key that is present
\* overrides the default, also when its value is undefined.
MergedOptions(options) ==
    [maxRetries |-> IF options.maxRetries.key = "absent"
                    THEN Num(DEFAULT_OPTIONS.maxRetries)
                    ELSE IF options.maxRetries.key = "undefined" THEN Undef
                    ELSE Num(options.maxRetries.val),
     baseDelayMs |-> IF options.baseDelayMs.key = "absent"
                     THEN DEFAULT_OPTIONS.baseDelayMs ELSE options.baseDelayMs.val,
     maxDelayMs |-> IF options.maxDelayMs.key = "absent"
                    THEN DEFAULT_OPTIONS.maxDelayMs ELSE options.maxDelayMs.val,
     onRetry |-> options.onRetry]

opts == MergedOptions(rOptions)

RECURSIVE Pow2(_)
Pow2(n) == IF n <= 0 THEN 1 ELSE 2 * Pow2(n - 1)

\* calculateBackoff with Math.random() = k / JitterDen, 0 <= k < JitterDen.
\* jitter = random * 0.3 * exponentialDelay = 3*k*exponentialDelay / (10*JitterDen);
\* the result is floor(min(exponentialDelay + jitter, maxDelayMs)).
calculateBackoffUncapped(attemptNo, baseDelayMs, maxDelayMs, k) ==
    LET exponentialDelay == baseDelayMs * Pow2(attemptNo)
    IN  exponentialDelay + ((3 * k * exponentialDelay) \div (10 * JitterDen))

\* a backoff whose jitter is up to 100% of the exponential delay
calculateBackoffFullJitter(attemptNo, baseDelayMs, maxDelayMs, k) ==
    LET exponentialDelay == baseDelayMs * Pow2(attemptNo)
        num == 10 * k * exponentialDelay
        den == 10 * JitterDen
    IN  IF den * exponentialDelay + num < den * maxDelayMs
        THEN exponentialDelay + (num \div den)
        ELSE maxDelayMs

calculateBackoff(attemptNo, baseDelayMs, maxDelayMs, k) ==
    LET exponentialDelay == baseDelayMs * Pow2(attemptNo)
        num == 3 * k * exponentialDelay
        den == 10 * JitterDen
    IN  IF den * exponentialDelay + num < den * maxDelayMs
        THEN exponentialDelay + (num \div den)
        ELSE maxDelayMs

JitterDraws == 0..(JitterDen - 1)


(***************************************************************************)
(* withRetry and fetchWithRetry (src/src/index.ts 268-346)                 *)
(***************************************************************************)
\* What an invocation of fn returns: seq is the invocation that produced it,
\* resp the Response (fetchWithRetry) or NoResponse (a plain operation).
Value(seq, resp) == [seq |-> seq, resp |-> resp]
NoValue == Value(0, NoResponse)

\* The outcome of one invocation of fn.  fetched/resp record what fetch() did
\* inside fetchWithRetry's closure: resolved with resp, or rejected.
Outcome(ok, value, error, fetched, resp) ==
    [ok |-> ok, value |-> value, error |-> error, fetched |-> fetched, resp |-> resp]
NoOutcome == Outcome(FALSE, NoValue, NoError, "none", NoResponse)

\* Every way an arbitrary operation can settle at invocation seq.
FnOutcomes(seq) ==
    {Outcome(TRUE, Value(seq, NoResponse), NoError, "none", NoResponse)}
    \cup {Outcome(FALSE, NoValue, e, "none", NoResponse) :
            e \in {RateLimitError(FALSE, 0, seq), NetworkError(seq)}
                  \cup {RateLimitError(TRUE, s, seq) : s \in 0..MaxHintSec}
                  \cup {Err(k, FALSE, 0, seq) : k \in {"APIKeyError", "Error"}}}

\* The responses fetch() can resolve with.  x-ratelimit-reset is a Unix time
\* in seconds: 10 lies before NowMs, 12 lies 1500 ms after it.
RetryAfterHdrs == {AbsentHdr, Hdr("nan", 0)} \cup {Hdr("int", s) : s \in 0..MaxHintSec}
ResetHdrs == {AbsentHdr, Hdr("int", 10), Hdr("int", 12)}
Responses ==
    {Response(st, "absent", AbsentHdr, AbsentHdr) : st \in {200, 401, 404, 500}}
    \cup {Response(429, "absent", ra, rs) : ra \in RetryAfterHdrs, rs \in ResetHdrs}
    \cup {Response(403, "0", ra, rs) :
            ra \in {AbsentHdr, Hdr("int", 0), Hdr("int", MaxHintSec)},
            rs \in {AbsentHdr, Hdr("int", 12)}}
    \cup {Response(403, rem, ra, AbsentHdr) :
            rem \in {"absent", "1"}, ra \in {AbsentHdr, Hdr("int", MaxHintSec)}}

\* response.ok
ResponseOk(response) == response.status >= 200 /\ response.status <= 299

FetchClosureRetryingEvery403(fetched, response, seq) ==
    IF fetched = "rejected"
    THEN Outcome(FALSE, NoValue, Err("TypeError", FALSE, 0, seq), fetched, NoResponse)
    ELSE IF response.status = 429 \/ response.status = 403
    THEN LET retryAfter == getRetryAfter(response)
         IN  Outcome(FALSE, NoValue, RateLimitError(retryAfter.def, retryAfter.val, seq),
                     fetched, response)
    ELSE IF ~ResponseOk(response) /\ response.status >= 500
    THEN Outcome(FALSE, NoValue, NetworkError(seq), fetched, response)
    ELSE Outcome(TRUE, Value(seq, response), NoError, fetched, response)

\* a closure that raises a NetworkError for every response that is not ok
FetchClosureRaisingEveryNotOk(fetched, response, seq) ==
    IF fetched = "rejected"
    THEN Outcome(FALSE, NoValue, Err("TypeError", FALSE, 0, seq), fetched, NoResponse)
    ELSE IF response.status = 429
    THEN LET retryAfter == getRetryAfter(response)
         IN  Outcome(FALSE, NoValue, RateLimitError(retryAfter.def, retryAfter.val, seq),
                     fetched, response)
    ELSE IF response.status = 403 /\ response.remaining = "0"
    THEN LET retryAfter == getRetryAfter(response)
         IN  Outcome(FALSE, NoValue, RateLimitError(retryAfter.def, retryAfter.val, seq),
                     fetched, response)
    ELSE IF ~ResponseOk(response)
    THEN Outcome(FALSE, NoValue, NetworkError(seq), fetched, response)
    ELSE Outcome(TRUE, Value(seq, response), NoError, fetched, response)

\* The operation fetchWithRetry hands to withRetry (lines 322-345): what it
\* settles with when fetch() resolved with response, or rejected.
FetchClosure(fetched, response, seq) ==
    IF fetched = "rejected"
    THEN Outcome(FALSE, NoValue, Err("TypeError", FALSE, 0, seq), fetched, NoResponse)
    ELSE IF response.status = 429
    THEN LET retryAfter == getRetryAfter(response)
         IN  Outcome(FALSE, NoValue, RateLimitError(retryAfter.def, retryAfter.val, seq),
                     fetched, response)
    ELSE IF response.status = 403 /\ response.remaining = "0"
    THEN LET retryAfter == getRetryAfter(response)
         IN  Outcome(FALSE, NoValue, RateLimitError(retryAfter.def, retryAfter.val, seq),
                     fetched, response)
    ELSE IF ~ResponseOk(response) /\ response.status >= 500
    THEN Outcome(FALSE, NoValue, NetworkError(seq), fetched, response)
    ELSE Outcome(TRUE, Value(seq, response), NoError, fetched, response)

LoopContinuesStrict(attemptNo, maxRetries) ==
    maxRetries.def /\ attemptNo < maxRetries.val

\* The loop condition `attempt <= opts.maxRetries` (false for undefined).
LoopContinues(attemptNo, maxRetries) ==
    maxRetries.def /\ attemptNo <= maxRetries.val

AttemptsExhaustedOneEarly(attemptNo, maxRetries) ==
    maxRetries.def /\ attemptNo + 1 >= maxRetries.val

AttemptsExhaustedOneLate(attemptNo, maxRetries) ==
    maxRetries.def /\ attemptNo > maxRetries.val

\* `attempt >= opts.maxRetries` (false for undefined).
AttemptsExhausted(attemptNo, maxRetries) ==
    maxRetries.def /\ attemptNo >= maxRetries.val

\* `error instanceof RateLimitError && error.retryAfter`: a retryAfter of
\* undefined or 0 is falsy.
UsesHint(error) ==
    error.kind = "RateLimitError" /\ error.hasRetryAfter /\ error.retryAfter # 0

\* Lines 293-299: the delay before the next attempt.
RetryDelay(error, attemptNo, o, k) ==
    IF UsesHint(error)
    THEN error.retryAfter * 1000
    ELSE calculateBackoff(attemptNo, o.baseDelayMs, o.maxDelayMs, k)

Settled(state, value, error) == [state |-> state, value |-> value, error |-> error]
Pending == Settled("pending", NoValue, NoError)

ThrownAtExhaustionAnnotated(error) == [error EXCEPT !.note = "retries exhausted"]

\* What `throw lastError` (line 311) raises.
ThrownAtExhaustion(error) == error

RetryIdle ==
    /\ rMode = "idle" /\ rPc = "idle"
    /\ rOptions = [maxRetries |-> Key("absent", 0), baseDelayMs |-> Key("absent", 0),
                   maxDelayMs |-> Key("absent", 0), onRetry |-> FALSE]
    /\ attempt = 0 /\ lastError = NoError /\ delayMs = 0 /\ rSettled = Pending
    /\ calls = 0 /\ failures = 0 /\ successes = 0 /\ lastOutcome = NoOutcome
    /\ sleeps = 0 /\ totalWaitMs = 0 /\ hintedFailures = 0 /\ onRetryCalls = 0
    /\ retryableFailures = 0

\* withRetry / fetchWithRetry has been called with some options; nothing has run.
RetryInit ==
    /\ rMode \in {"fn", "fetch"}
    /\ rOptions \in RetryOptionsSet
    /\ rPc = "enter"
    /\ attempt = 0 /\ lastError = NoError /\ delayMs = 0 /\ rSettled = Pending
    /\ calls = 0 /\ failures = 0 /\ successes = 0 /\ lastOutcome = NoOutcome
    /\ sleeps = 0 /\ totalWaitMs = 0 /\ hintedFailures = 0 /\ onRetryCalls = 0
    /\ retryableFailures = 0

\* Lines 272-275: merge the options, attempt = 0, first test of the loop
\* condition; when it fails the loop is skipped and line 311 throws lastError.
WithRetryEnter ==
    /\ rPc = "enter"
    /\ IF LoopContinues(0, opts.maxRetries)
       THEN rPc' = "call" /\ rSettled' = rSettled
       ELSE rPc' = "rejected"
            /\ rSettled' = Settled("rejected", NoValue, ThrownAtExhaustion(lastError))
    /\ UNCHANGED <<rMode, rOptions, attempt, lastError, delayMs, calls, failures,
                   successes, lastOutcome, sleeps, totalWaitMs, hintedFailures,
                   onRetryCalls, retryableFailures>>
    /\ UNCHANGED <<backoffVars, discoverVars, fnVars, opVars>>

\* Lines 276-307: fn() has settled with outcome; k is the jitter draw.
HandleOutcome(outcome, k) ==
    /\ calls' = calls + 1
    /\ lastOutcome' = outcome
    /\ retryableFailures' = IF ~outcome.ok /\ outcome.error.kind \in RetryableKinds
                            THEN retryableFailures + 1 ELSE retryableFailures
    /\ hintedFailures' = IF ~outcome.ok /\ CarriesHint(outcome.error)
                       THEN hintedFailures + 1 ELSE hintedFailures
    /\ IF outcome.ok
       THEN \* return await fn()
            /\ successes' = successes + 1
            /\ rPc' = "resolved"
            /\ rSettled' = Settled("resolved", outcome.value, NoError)
            /\ UNCHANGED <<failures, lastError, delayMs, sleeps, onRetryCalls>>
       ELSE /\ failures' = failures + 1
            /\ lastError' = outcome.error
            /\ successes' = successes
            /\ IF ~isRetryableError(outcome.error)
               THEN \* throw error
                    /\ rPc' = "rejected"
                    /\ rSettled' = Settled("rejected", NoValue, outcome.error)
                    /\ UNCHANGED <<delayMs, sleeps, onRetryCalls>>
               ELSE IF AttemptsExhausted(attempt, opts.maxRetries)
               THEN \* break; throw lastError
                    /\ rPc' = "rejected"
                    /\ rSettled' = Settled("rejected", NoValue,
                                           ThrownAtExhaustion(outcome.error))
                    /\ UNCHANGED <<delayMs, sleeps, onRetryCalls>>
               ELSE \* onRetry, then sleep(delayMs)
                    /\ delayMs' = RetryDelay(outcome.error, attempt, opts, k)
                    /\ onRetryCalls' = IF opts.onRetry THEN onRetryCalls + 1
                                       ELSE onRetryCalls
                    /\ sleeps' = sleeps + 1
                    /\ rPc' = "sleep"
                    /\ rSettled' = rSettled
    /\ UNCHANGED <<rMode, rOptions, attempt, totalWaitMs>>

\* withRetry over an arbitrary operation: one invocation and its handling.
AttemptFn ==
    /\ rPc = "call" /\ rMode = "fn"
    /\ \E outcome \in FnOutcomes(calls + 1), k \in JitterDraws : HandleOutcome(outcome, k)
    /\ UNCHANGED <<backoffVars, discoverVars, fnVars, opVars>>

\* fetchWithRetry: fetch() rejects.
AttemptFetchRejected ==
    /\ rPc = "call" /\ rMode = "fetch"
    /\ \E k \in JitterDraws :
          HandleOutcome(FetchClosure("rejected", NoResponse, calls + 1), k)
    /\ UNCHANGED <<backoffVars, discoverVars, fnVars, opVars>>

\* fetchWithRetry: fetch() resolves with a response.
AttemptFetchResponse ==
    /\ rPc = "call" /\ rMode = "fetch"
    /\ \E response \in Responses, k \in JitterDraws :
          HandleOutcome(FetchClosure("resolved", response, calls + 1), k)
    /\ UNCHANGED <<backoffVars, discoverVars, fnVars, opVars>>

\* sleep(delayMs) is over: attempt++, the loop condition, and line 311 when
\* the loop ends.
WithRetryWake ==
    /\ rPc = "sleep"
    /\ totalWaitMs' = totalWaitMs + delayMs
    /\ attempt' = attempt + 1
    /\ IF LoopContinues(attempt + 1, opts.maxRetries)
       THEN rPc' = "call" /\ rSettled' = rSettled
       ELSE rPc' = "rejected"
            /\ rSettled' = Settled("rejected", NoValue, ThrownAtExhaustion(lastError))
    /\ UNCHANGED <<rMode, rOptions, lastError, delayMs, calls, failures, successes,
                   lastOutcome, sleeps, hintedFailures, onRetryCalls, retryableFailures>>
    /\ UNCHANGED <<backoffVars, discoverVars, fnVars, opVars>>

RetryNext ==
    \/ WithRetryEnter
    \/ AttemptFn
    \/ AttemptFetchRejected
    \/ AttemptFetchResponse
    \/ WithRetryWake


(***************************************************************************)
(* calculateBackoff applied to drawn inputs                                *)
(***************************************************************************)
BackoffBaseValues == {0, 1, 7, 100, 1000}
BackoffMaxValues == {0, 150, 1000, 30000}

BackoffIdle ==
    /\ bPc = "idle"
    /\ bIn = [attempt |-> 0, baseDelayMs |-> 0, maxDelayMs |-> 0]
    /\ bOut = [k1 |-> 0, k2 |-> 0, atAttempt |-> 0, atNext |-> 0]

BackoffInit ==
    /\ bPc = "drawn"
    /\ bIn \in [attempt : 0..MaxBackoffAttempt, baseDelayMs : BackoffBaseValues,
                maxDelayMs : BackoffMaxValues]
    /\ bOut = [k1 |-> 0, k2 |-> 0, atAttempt |-> 0, atNext |-> 0]

\* Two independent calls: one at attempt with jitter draw k1, one at
\* attempt + 1 with jitter draw k2.
ComputeBackoff ==
    /\ bPc = "drawn"
    /\ \E k1 \in JitterDraws, k2 \in JitterDraws :
          bOut' = [k1 |-> k1, k2 |-> k2,
                   atAttempt |-> calculateBackoff(bIn.attempt, bIn.baseDelayMs,
                                                  bIn.maxDelayMs, k1),
                   atNext |-> calculateBackoff(bIn.attempt + 1, bIn.baseDelayMs,
                                               bIn.maxDelayMs, k2)]
    /\ bPc' = "computed"
    /\ UNCHANGED bIn
    /\ UNCHANGED <<retryVars, discoverVars, fnVars, opVars>>

BackoffNext == ComputeBackoff

(***************************************************************************)
(* ToolDiscovery.discover (src/src/index.ts 20-150)                        *)
(***************************************************************************)
\* Text is a sequence of characters.
CRYPTO_KEYWORDS ==
    {<<"c", "r", "y", "p", "t", "o">>,
     <<"c", "r", "y", "p", "t", "o", "c", "u", "r", "r", "e", "n", "c", "y">>,
     <<"d", "e", "f", "i">>,
     <<"b", "l", "o", "c", "k", "c", "h", "a", "i", "n">>,
     <<"w", "e", "b", "3">>,
     <<"e", "t", "h", "e", "r", "e", "u", "m">>,
     <<"e", "t", "h">>,
     <<"s", "o", "l", "a", "n", "a">>,
     <<"s", "o", "l">>,
     <<"b", "i", "t", "c", "o", "i", "n">>,
     <<"b", "t", "c">>,
     <<"w", "a", "l", "l", "e", "t">>,
     <<"t", "o", "k", "e", "n">>,
     <<"n", "f", "t">>,
     <<"d", "e", "x">>,
     <<"s", "w", "a", "p">>,
     <<"s", "t", "a", "k", "i", "n", "g">>,
     <<"y", "i", "e", "l", "d">>,
     <<"b", "r", "i", "d", "g", "e">>,
     <<"c", "h", "a", "i", "n">>,
     <<"s", "m", "a", "r", "t", " ", "c", "o", "n", "t", "r", "a", "c", "t">>,
     <<"e", "r", "c", "2", "0">>,
     <<"e", "r", "c", "7", "2", "1">>,
     <<"u", "n", "i", "s", "w", "a", "p">>,
     <<"a", "a", "v", "e">>,
     <<"c", "o", "m", "p", "o", "u", "n", "d">>,
     <<"l", "e", "n", "d", "i", "n", "g">>,
     <<"l", "i", "q", "u", "i", "d", "i", "t", "y">>,
     <<"v", "a", "u", "l", "t">>,
     <<"p", "r", "o", "t", "o", "c", "o", "l">>,
     <<"o", "n", "c", "h", "a", "i", "n">>,
     <<"o", "n", "-", "c", "h", "a", "i", "n">>,
     <<"w", "e", "b", "3", ".", "j", "s">>,
     <<"e", "t", "h", "e", "r", "s">>,
     <<"v", "i", "e", "m">>,
     <<"w", "a", "g", "m", "i">>,
     <<"r", "a", "i", "n", "b", "o", "w", "k", "i", "t">>}

\* String.prototype.toLowerCase on one character.
LowerChar(c) ==
    CASE c = "A" -> "a"
         [] c = "B" -> "b"
         [] c = "C" -> "c"
         [] c = "D" -> "d"
         [] c = "E" -> "e"
         [] c = "F" -> "f"
         [] c = "G" -> "g"
         [] c = "H" -> "h"
         [] c = "I" -> "i"
         [] c = "J" -> "j"
         [] c = "K" -> "k"
         [] c = "L" -> "l"
         [] c = "M" -> "m"
         [] c = "N" -> "n"
         [] c = "O" -> "o"
         [] c = "P" -> "p"
         [] c = "Q" -> "q"
         [] c = "R" -> "r"
         [] c = "S" -> "s"
         [] c = "T" -> "t"
         [] c = "U" -> "u"
         [] c = "V" -> "v"
         [] c = "W" -> "w"
         [] c = "X" -> "x"
         [] c = "Y" -> "y"
         [] c = "Z" -> "z"
         [] OTHER -> c

toLowerCase(text) == [i \in 1..Len(text) |-> LowerChar(text[i])]

\* String.prototype.includes
Includes(text, keyword) ==
    \E i \in 1..(Len(text) - Len(keyword) + 1) :
        SubSeq(text, i, i + Len(keyword) - 1) = keyword

\* readme?.slice(0, 5000) || ''
ReadmeSliceLen == 5000
ReadmePart(tool) ==
    IF tool.readme.present
    THEN SubSeq(tool.readme.text, 1,
                IF Len(tool.readme.text) < ReadmeSliceLen
                THEN Len(tool.readme.text) ELSE ReadmeSliceLen)
    ELSE <<>>

isCryptoRelated(tool) ==
    LET searchText == toLowerCase(tool.name \o <<" ">> \o tool.description
                                  \o <<" ">> \o ReadmePart(tool))
    IN  \E keyword \in CRYPTO_KEYWORDS : Includes(searchText, toLowerCase(keyword))

Readme(present, text) == [present |-> present, text |-> text]

Tool(id, name, description, readme, hasMCPSupport, source) ==
    [id |-> id, name |-> name, description |-> description, readme |-> readme,
     hasMCPSupport |-> hasMCPSupport, source |-> source]

\* The tool records the source adapters may return.  hasMCPSupport is an
\* optional boolean: "true", "false" or "undefined".
ToolUniverse ==
    {Tool("github:a/eth-mcp", <<"e","t","h","-","m","c","p">>, <<>>,
          Readme(FALSE, <<>>), "true", "github"),
     Tool("npm:sql-mcp", <<"s","q","l","-","m","c","p">>, <<"d","b">>,
          Readme(FALSE, <<>>), "true", "npm"),
     Tool("npm:DeFi", <<"D","e","F","i">>, <<>>,
          Readme(TRUE, <<"k","i","t">>), "false", "npm"),
     Tool("github:b/x", <<"x">>, <<"a","r","t">>,
          Readme(TRUE, <<"N","F","T","s">>), "true", "github"),
     Tool("npm:swap", <<"s","w","a","p">>, <<>>,
          Readme(FALSE, <<>>), "undefined", "npm"),
     Tool("npm:vault", <<"v","a","u","l","t">>, <<>>,
          Readme(FALSE, <<>>), "true", "npm")}


\* The DiscoveryOptions the model draws.  A key that is absent takes the
\* default of the destructuring at lines 46-51.
SourceLists ==
    {<<>>, <<"github">>, <<"npm">>, <<"github", "npm">>, <<"npm", "github">>,
     <<"smithery", "github">>, <<"github", "github">>}

DiscoveryOptionsSet ==
    [sources : {[present |-> FALSE, list |-> <<>>]}
                 \cup {[present |-> TRUE, list |-> l] : l \in SourceLists},
     limit : {Key("absent", 0)} \cup {Key("number", n) : n \in 0..MaxLimit},
     dryRun : {"absent", "true", "false"}]

DefaultSources == <<"github", "npm">>
DefaultLimit == 10

dSources == IF dOptions.sources.present THEN dOptions.sources.list ELSE DefaultSources
dLimit == IF dOptions.limit.key = "absent" THEN DefaultLimit ELSE dOptions.limit.val
dDryRun == dOptions.dryRun = "true"

\* Array.prototype.slice(0, end)
Slice0(seq, end) ==
    LET n == Len(seq)
        e == IF end < 0 THEN (IF n + end < 0 THEN 0 ELSE n + end)
             ELSE IF end > n THEN n ELSE end
    IN  SubSeq(seq, 1, e)

HasMCPSupportUnlessFalse(tool) == tool.hasMCPSupport # "false"

\* Line 80: `t => t.hasMCPSupport`, an undefined flag is falsy.
HasMCPSupport(tool) == tool.hasMCPSupport = "true"

\* isCryptoRelated over the tool universe, evaluated once.
CryptoRelatedTools == {t \in ToolUniverse : isCryptoRelated(t)}
IsCryptoTool(tool) == tool \in CryptoRelatedTools

\* Lines 76 and 80: the two filters, in the code's order.
FilterTools(all) == SelectSeq(SelectSeq(all, IsCryptoTool), HasMCPSupport)

\* Line 86: mcpTools.slice(0, limit)
Candidates(filtered, limit) == Slice0(filtered, limit)

\* Every list of at most n tools.
RECURSIVE ToolLists(_)
ToolLists(n) ==
    IF n <= 0 THEN {<<>>}
    ELSE LET shorter == ToolLists(n - 1)
         IN  shorter \cup {<<t>> \o l : t \in ToolUniverse,
                                        l \in {x \in shorter : Len(x) = n - 1}}

AllToolLists == ToolLists(MaxTools)

Ids(seq) == [i \in 1..Len(seq) |-> seq[i].id]

NoDuplicates(seq) == \A i, j \in 1..Len(seq) : seq[i] = seq[j] => i = j

\* What searchMCPServers of one adapter can resolve with: tools of that
\* source ("github:owner/repo", "npm:<package>"), already deduplicated by id
\* inside the adapter.
AdapterResults(source) ==
    {l \in AllToolLists : /\ \A i \in 1..Len(l) : l[i].source = source
                          /\ NoDuplicates(Ids(l))}

GithubResults == AdapterResults("github")
NpmResults == AdapterResults("npm")
ResultsOf(source) == IF source = "github" THEN GithubResults ELSE NpmResults

\* searchMCPServers(limit): the adapter returns at most `limit` of the tools
\* its queries found, in their order.
SearchMCPServers(hits, limit) == Slice0(hits, limit)

\* The decisions analyzeAndDecide can resolve with for a tool.
Decisions(tool) ==
    {[template |-> t, config |-> [identifier |-> tool.id]] :
        t \in {"mcp-stdio", "basic"}}

\* What analyzeAndDecide rejects with: "No AI client" when no API key is
\* configured, otherwise a failure of this one analysis.
AnalysisFailure(credentials) ==
    IF credentials THEN "AnalysisError" ELSE "NoAIClient"

\* a result that carries the tool without its readme
DiscoveryResultWithoutReadme(tool, decision) ==
    [tool |-> [tool EXCEPT !.readme = Readme(FALSE, <<>>)], decision |-> decision,
     generated |-> [pluginConfig |-> decision.config]]

DiscoveryResult(tool, decision) ==
    [tool |-> tool, decision |-> decision,
     generated |-> [pluginConfig |-> decision.config]]

DiscoverIdle ==
    /\ dPc = "idle"
    /\ dOptions = [sources |-> [present |-> FALSE, list |-> <<>>],
                   limit |-> Key("absent", 0), dryRun |-> "absent"]
    /\ dCredentials = TRUE /\ dAwait = "none"
    /\ dSrcIdx = 1 /\ tools = <<>> /\ mcpTools = <<>> /\ dIdx = 1
    /\ results = <<>> /\ dReturned = <<>> /\ aiCalls = <<>>
    /\ aiInFlight = 0 /\ adapterInFlight = 0 /\ failedLog = <<>>
    /\ aiOutcomes = <<>>
    /\ quickImportCalls = 0 /\ adapterCalls = <<>> /\ adapterThrew = {}
    /\ dPerSource = <<>> /\ dHits = <<>> /\ dryLogged = <<>>
    /\ dTrace = <<>>

\* discover has been called; no adapter has been called yet.
DiscoverInit ==
    /\ dPc = "Collecting"
    /\ dOptions \in DiscoveryOptionsSet
    /\ dCredentials \in BOOLEAN /\ dAwait = "none"
    /\ dSrcIdx = 1 /\ tools = <<>> /\ mcpTools = <<>> /\ dIdx = 1
    /\ results = <<>> /\ dReturned = <<>> /\ aiCalls = <<>>
    /\ aiInFlight = 0 /\ adapterInFlight = 0 /\ failedLog = <<>>
    /\ aiOutcomes = <<>>
    /\ quickImportCalls = 0 /\ adapterCalls = <<>> /\ adapterThrew = {}
    /\ dPerSource = <<>> /\ dHits = <<>> /\ dryLogged = <<>>
    /\ dTrace = <<"Collecting">>

DryRunSkipsAnalysisNever(dryRun) == FALSE

\* Line 87: `if (dryRun) { ...log...; continue }`
DryRunSkipsAnalysis(dryRun) == dryRun

AwaitOfAdapterOnly(call) == IF call = "ai" THEN "none" ELSE call

\* Lines 61 and 98: both calls are awaited, discover is suspended until the
\* promise of the call settles.
AwaitOf(call) == call

PushAllInFront(all, discovered) == discovered \o all

\* Line 63: tools.push(...discovered)
PushAll(all, discovered) == all \o discovered

AdapterErrorPropagated(error) == FALSE

\* Lines 60-66: the try around discoverFromSource catches whatever it throws.
AdapterErrorCaught(error) == TRUE

AnalysisErrorPropagated(error) == FALSE

\* Lines 97-117: the try around analyzeAndDecide catches whatever it throws,
\* whichever error it is, and the for loop goes on.
AnalysisErrorCaught(error) == TRUE

LogFailureNowhere(log, id, error) == log

\* Line 116: console.error(`  Failed to analyze: ${error}`)
LogFailure(log, id, error) == Append(log, [id |-> id, error |-> error])

\* Lines 69-93 and 120, entered when the last adapter call has settled: the
\* empty check, the two filters, and then either the whole dry-run loop and
\* the return, or the return for an empty candidate list, or the loop at the
\* first analyzeAndDecide call.  trace is the trace up to here.
AfterCollecting(collected, trace) ==
    IF Len(collected) = 0
    THEN /\ dPc' = "Done" /\ dReturned' = <<>>
         /\ dTrace' = trace \o <<"Done">>
         /\ UNCHANGED <<mcpTools, dryLogged>>
    ELSE LET filtered == FilterTools(collected)
             cands == Candidates(filtered, dLimit)
         IN  /\ mcpTools' = filtered
             /\ IF DryRunSkipsAnalysis(dDryRun)
                THEN /\ dryLogged' = Ids(cands)
                     /\ dPc' = "Done" /\ dReturned' = results
                     /\ dTrace' = trace \o <<"Filtering", "DryPreview", "Done">>
                ELSE /\ dryLogged' = dryLogged
                     /\ IF Len(cands) = 0
                        THEN /\ dPc' = "Done" /\ dReturned' = results
                             /\ dTrace' = trace \o <<"Filtering", "Classifying", "Done">>
                        ELSE /\ dPc' = "Classifying" /\ dReturned' = dReturned
                             /\ dTrace' = trace \o <<"Filtering", "Classifying">>

\* The iteration of the loop at line 59 for sources[dSrcIdx] has ended with
\* `discovered` pushed (the empty list when the adapter threw or when the
\* source is not implemented).
LastSourceAlways(idx, sources) == TRUE

\* Line 59: the for...of loop over sources is exhausted after its last
\* element.
LastSource(idx, sources) == idx = Len(sources)

Collected(hits, discovered, trace) ==
    /\ tools' = PushAll(tools, discovered)
    /\ dHits' = Append(dHits, hits)
    /\ dPerSource' = Append(dPerSource, discovered)
    /\ dSrcIdx' = dSrcIdx + 1
    /\ IF LastSource(dSrcIdx, dSources)
       THEN AfterCollecting(PushAll(tools, discovered), trace)
       ELSE /\ dTrace' = trace
            /\ UNCHANGED <<dPc, dReturned, mcpTools, dryLogged>>

\* Lines 61, 128-132: searchMCPServers of the next source is called.
CollectCall ==
    /\ dPc = "Collecting" /\ dAwait = "none" /\ dSrcIdx <= Len(dSources)
    /\ dSources[dSrcIdx] \in {"github", "npm"}
    /\ adapterCalls' = Append(adapterCalls, dSources[dSrcIdx])
    /\ adapterInFlight' = adapterInFlight + 1
    /\ dAwait' = AwaitOf("adapter")
    /\ dTrace' = Append(dTrace, "adapterCall")
    /\ UNCHANGED <<dPc, dOptions, dCredentials, dSrcIdx, tools, mcpTools, dIdx,
                   results, dReturned, aiCalls, aiInFlight, failedLog,
                   quickImportCalls, adapterThrew, dPerSource, dHits, dryLogged>>
    /\ UNCHANGED aiOutcomes
    /\ UNCHANGED <<retryVars, backoffVars, fnVars, opVars>>

\* Lines 61-63: searchMCPServers resolves with a list.
CollectOk ==
    /\ dPc = "Collecting" /\ dAwait = "adapter"
    /\ adapterInFlight' = adapterInFlight - 1
    /\ dAwait' = "none"
    /\ \E hits \in {l \in ResultsOf(dSources[dSrcIdx]) :
                      Len(l) <= MaxTools - Len(tools)} :
          Collected(hits, SearchMCPServers(hits, dLimit),
                    Append(dTrace, "adapterSettled"))
    /\ UNCHANGED <<dOptions, dCredentials, dIdx, results, aiCalls, aiInFlight,
                   failedLog, quickImportCalls, adapterCalls, adapterThrew>>
    /\ UNCHANGED aiOutcomes
    /\ UNCHANGED <<retryVars, backoffVars, fnVars, opVars>>

\* Lines 64-66: searchMCPServers rejects; the error is logged.
CollectThrows ==
    /\ dPc = "Collecting" /\ dAwait = "adapter"
    /\ adapterInFlight' = adapterInFlight - 1
    /\ dAwait' = "none"
    /\ adapterThrew' = adapterThrew \cup {dSrcIdx}
    /\ IF AdapterErrorCaught("Error")
       THEN Collected(<<>>, <<>>, Append(dTrace, "adapterSettled"))
       ELSE /\ dPc' = "Raised"
            /\ dTrace' = Append(dTrace, "adapterSettled")
            /\ UNCHANGED <<tools, dPerSource, dHits, dSrcIdx, dReturned, mcpTools,
                           dryLogged>>
    /\ UNCHANGED <<dOptions, dCredentials, dIdx, results, aiCalls, aiInFlight,
                   failedLog, quickImportCalls, adapterCalls>>
    /\ UNCHANGED aiOutcomes
    /\ UNCHANGED <<retryVars, backoffVars, fnVars, opVars>>

\* Lines 133-135: a source without an adapter contributes [].
CollectUnimplemented ==
    /\ dPc = "Collecting" /\ dAwait = "none" /\ dSrcIdx <= Len(dSources)
    /\ dSources[dSrcIdx] \notin {"github", "npm"}
    /\ Collected(<<>>, <<>>, dTrace)
    /\ UNCHANGED <<dOptions, dCredentials, dAwait, dIdx, results, aiCalls,
                   aiInFlight, adapterInFlight, failedLog, quickImportCalls,
                   adapterCalls, adapterThrew>>
    /\ UNCHANGED aiOutcomes
    /\ UNCHANGED <<retryVars, backoffVars, fnVars, opVars>>

\* sources is empty: the loop at line 59 is skipped.
CollectNothing ==
    /\ dPc = "Collecting" /\ dAwait = "none" /\ Len(dSources) = 0
    /\ AfterCollecting(tools, dTrace)
    /\ UNCHANGED <<dOptions, dCredentials, dAwait, dSrcIdx, tools, dIdx, results,
                   aiCalls, aiInFlight, adapterInFlight, failedLog,
                   quickImportCalls, adapterCalls, adapterThrew, dPerSource,
                   dHits>>
    /\ UNCHANGED aiOutcomes
    /\ UNCHANGED <<retryVars, backoffVars, fnVars, opVars>>

\* After candidate dIdx: the next iteration of the loop at line 86, or
\* line 120.
NextCandidate(newResults, trace) ==
    /\ dIdx' = dIdx + 1
    /\ IF dIdx = Len(Candidates(mcpTools, dLimit))
       THEN /\ dPc' = "Done" /\ dReturned' = newResults
            /\ dTrace' = trace \o <<"Done">>
       ELSE /\ dTrace' = trace
            /\ UNCHANGED <<dPc, dReturned>>

\* Line 98: analyzeAndDecide is called for candidate dIdx.
ClassifyCall ==
    /\ dPc = "Classifying" /\ dAwait = "none"
    /\ dIdx <= Len(Candidates(mcpTools, dLimit))
    /\ aiCalls' = Append(aiCalls, Candidates(mcpTools, dLimit)[dIdx].id)
    /\ aiInFlight' = aiInFlight + 1
    /\ dAwait' = AwaitOf("ai")
    /\ dTrace' = Append(dTrace, "aiCall")
    /\ UNCHANGED <<dPc, dOptions, dCredentials, dSrcIdx, tools, mcpTools, dIdx,
                   results, dReturned, adapterInFlight, failedLog,
                   quickImportCalls, adapterCalls, adapterThrew, dPerSource,
                   dHits, dryLogged>>
    /\ UNCHANGED aiOutcomes
    /\ UNCHANGED <<retryVars, backoffVars, fnVars, opVars>>

\* Lines 98-114: analyzeAndDecide resolves, generateQuickImport returns, the
\* result is pushed.
ClassifyOk ==
    /\ dPc = "Classifying" /\ dAwait = "ai" /\ dCredentials
    /\ aiInFlight' = aiInFlight - 1
    /\ dAwait' = "none"
    /\ quickImportCalls' = quickImportCalls + 1
    /\ aiOutcomes' = Append(aiOutcomes, "resolved")
    /\ LET tool == Candidates(mcpTools, dLimit)[dIdx]
       IN  \E decision \in Decisions(tool) :
              /\ results' = Append(results, DiscoveryResult(tool, decision))
              /\ NextCandidate(Append(results, DiscoveryResult(tool, decision)),
                               Append(dTrace, "aiSettled"))
    /\ UNCHANGED <<dOptions, dCredentials, dSrcIdx, tools, mcpTools, aiCalls,
                   adapterInFlight, failedLog, adapterCalls, adapterThrew,
                   dPerSource, dHits, dryLogged>>
    /\ UNCHANGED <<retryVars, backoffVars, fnVars, opVars>>

\* Lines 115-117: analyzeAndDecide rejects; the error is logged.
ClassifyFails ==
    /\ dPc = "Classifying" /\ dAwait = "ai"
    /\ aiInFlight' = aiInFlight - 1
    /\ dAwait' = "none"
    /\ results' = results
    /\ aiOutcomes' = Append(aiOutcomes, AnalysisFailure(dCredentials))
    /\ LET tool == Candidates(mcpTools, dLimit)[dIdx]
           error == AnalysisFailure(dCredentials)
       IN  IF AnalysisErrorCaught(error)
           THEN /\ failedLog' = LogFailure(failedLog, tool.id, error)
                /\ NextCandidate(results, Append(dTrace, "aiSettled"))
           ELSE /\ dPc' = "Raised"
                /\ dTrace' = Append(dTrace, "aiSettled")
                /\ UNCHANGED <<failedLog, dIdx, dReturned>>
    /\ UNCHANGED <<dOptions, dCredentials, dSrcIdx, tools, mcpTools, aiCalls,
                   adapterInFlight, quickImportCalls, adapterCalls, adapterThrew,
                   dPerSource, dHits, dryLogged>>
    /\ UNCHANGED <<retryVars, backoffVars, fnVars, opVars>>

DiscoverNext ==
    \/ CollectCall
    \/ CollectOk
    \/ CollectThrows
    \/ CollectUnimplemented
    \/ CollectNothing
    \/ ClassifyCall
    \/ ClassifyOk
    \/ ClassifyFails

(***************************************************************************)
(* Specifications                                                          *)
(***************************************************************************)
FnIdle == fPc = "idle" /\ fIn = "none" /\ fOut = "none"
OpIdle == oPc = "idle" /\ oIn = "none" /\ oSt = "none"

InitRetry == RetryInit /\ BackoffIdle /\ DiscoverIdle /\ FnIdle /\ OpIdle
SpecRetry == InitRetry /\ [][RetryNext]_vars

InitBackoff == BackoffInit /\ RetryIdle /\ DiscoverIdle /\ FnIdle /\ OpIdle
SpecBackoff == InitBackoff /\ [][BackoffNext]_vars

InitDiscover == DiscoverInit /\ RetryIdle /\ BackoffIdle /\ FnIdle /\ OpIdle
SpecDiscover == InitDiscover /\ [][DiscoverNext]_vars

Init == InitRetry
Next == RetryNext
Spec == Init /\ [][Next]_vars


(***************************************************************************)
(* Properties of withRetry and fetchWithRetry (under SpecRetry)            *)
(***************************************************************************)
HasMaxRetries == opts.maxRetries.def
MaxRetries == opts.maxRetries.val
IsSettled == rPc \in {"resolved", "rejected"}
\* The delay being slept, if any.
PendingDelayMs == IF rPc = "sleep" THEN delayMs ELSE 0

C2_NonRetryableOnce ==
    (calls >= 1 /\ ~lastOutcome.ok /\ lastOutcome.error.kind \notin RetryableKinds) =>
        /\ rPc = "rejected" /\ rSettled.state = "rejected"
        /\ rSettled.error = lastOutcome.error
        /\ rSettled.error.seq = calls
        /\ sleeps = calls - 1
        /\ onRetryCalls <= calls - 1
        /\ retryableFailures = calls - 1
        /\ calls = 1 => (sleeps = 0 /\ onRetryCalls = 0 /\ totalWaitMs = 0)

C2_Witness ==
    /\ rMode = "fn" /\ rPc = "rejected" /\ calls = 1
    /\ lastOutcome.error.kind = "APIKeyError"
    /\ opts.onRetry /\ HasMaxRetries /\ MaxRetries >= 1

C4_HintIsExactWait ==
    (rPc = "sleep" /\ lastError.kind = "RateLimitError") =>
        IF lastError.hasRetryAfter
        THEN delayMs = lastError.retryAfter * 1000
        ELSE \E k \in JitterDraws :
                delayMs = calculateBackoff(attempt, opts.baseDelayMs, opts.maxDelayMs, k)

\* C5 (as claimed): the time spent waiting never exceeds
\* maxDelayMs * maxRetries, retry-after hints included.
C5_TotalWaitBoundedAlways ==
    (HasMaxRetries /\ MaxRetries >= 0) =>
        totalWaitMs + PendingDelayMs <= opts.maxDelayMs * MaxRetries

\* C5 (amended): with maxRetries >= 0, there are never more than maxRetries
\* waits and the time spent waiting never exceeds maxDelayMs * maxRetries as
\* long as no failure carried a non-zero retry-after hint; the wait after a
\* failure with a non-zero hint of s seconds is s * 1000 ms, whatever
\* maxDelayMs is.
C5_TotalWaitBoundedWithoutHints ==
    (HasMaxRetries /\ MaxRetries >= 0) =>
        /\ sleeps <= MaxRetries
        /\ hintedFailures = 0 =>
              totalWaitMs + PendingDelayMs <= opts.maxDelayMs * MaxRetries
        /\ (rPc = "sleep" /\ CarriesHint(lastError)) =>
              delayMs = lastError.retryAfter * 1000

C5_Witness ==
    /\ rPc = "rejected" /\ hintedFailures = 0 /\ sleeps = 3
    /\ rOptions.maxDelayMs = Key("number", 150)
    /\ totalWaitMs > 2 * 150

\* C7: a 429 response, or a 403 response whose x-ratelimit-remaining is "0",
\* is never handed to the caller and ends the call only when the attempts are
\* exhausted; any other 403 response is handed to the caller by the
\* invocation that received it, with no retry after it.
C7_RateLimitDetection ==
    (rMode = "fetch" /\ lastOutcome.fetched = "resolved") =>
        LET response == lastOutcome.resp
        IN  /\ (response.status = 429
                  \/ (response.status = 403 /\ response.remaining = "0")) =>
                  /\ rPc # "resolved"
                  /\ lastError.kind = "RateLimitError"
                  /\ rPc = "rejected" => calls = MaxRetries + 1
            /\ (response.status = 403 /\ response.remaining # "0") =>
                  /\ rPc = "resolved"
                  /\ rSettled.value = Value(calls, response)
                  /\ sleeps = calls - 1
                  /\ calls = 1 => (sleeps = 0 /\ onRetryCalls = 0)

C7_Witness ==
    /\ rMode = "fetch" /\ rPc = "resolved" /\ calls = 2 /\ sleeps = 1
    /\ lastError.kind = "RateLimitError"
    /\ lastOutcome.resp.status = 403 /\ lastOutcome.resp.remaining = "1"

\* C8 (as claimed): when fetch() rejects and retries remain, fetchWithRetry
\* retries instead of passing the error to the caller.
C8_ConnectionFailureRetried ==
    (rMode = "fetch" /\ lastOutcome.fetched = "rejected"
       /\ HasMaxRetries /\ calls <= MaxRetries) =>
        rPc # "rejected"

\* C9 (as claimed): the error raised after maxRetries + 1 failed invocations
\* carries the annotation "retries exhausted".
C9_ExhaustionAnnotated ==
    (HasMaxRetries /\ calls >= 1 /\ calls = MaxRetries + 1 /\ failures = calls
       /\ rPc = "rejected") =>
        rSettled.error.note = "retries exhausted"

\* C9 (amended): after maxRetries + 1 failed invocations withRetry rejects
\* with the error the last invocation raised, as it was raised (no
\* annotation is added); the error is never swallowed.
C9_ExhaustionRethrowsLastError ==
    (HasMaxRetries /\ calls >= 1 /\ calls = MaxRetries + 1 /\ failures = calls) =>
        /\ rPc = "rejected" /\ rSettled.state = "rejected"
        /\ rSettled.error = lastOutcome.error
        /\ rSettled.error.seq = calls
        /\ rSettled.error.note = "none"

C9_Witness ==
    /\ rPc = "rejected" /\ calls = 4 /\ failures = 4 /\ sleeps = 3
    /\ rOptions.maxRetries.key = "absent"
    /\ rSettled.error.kind = "RateLimitError"

(***************************************************************************)
(* Properties of calculateBackoff (under SpecBackoff)                      *)
(***************************************************************************)
\* C6: for baseDelayMs >= 0, calculateBackoff at attempt a is <= calculateBackoff
\* at attempt a + 1 whatever the two jitter draws, and both are <= maxDelayMs.
C6_BackoffMonotone ==
    (bPc = "computed" /\ bIn.baseDelayMs >= 0) =>
        /\ bOut.atAttempt <= bOut.atNext
        /\ bOut.atAttempt <= bIn.maxDelayMs
        /\ bOut.atNext <= bIn.maxDelayMs

C6_Witness ==
    /\ bPc = "computed" /\ bOut.k1 > bOut.k2
    /\ bOut.atAttempt > bIn.baseDelayMs * Pow2(bIn.attempt)
    /\ bOut.atAttempt < bOut.atNext /\ bOut.atNext < bIn.maxDelayMs

(***************************************************************************)
(* Properties of discover (under SpecDiscover)                             *)
(***************************************************************************)
\* C10: with dryRun = true discover never calls analyzeAndDecide or
\* generateQuickImport and resolves with an empty array.
C10_DryRunNoClassification ==
    dDryRun =>
        /\ aiCalls = <<>> /\ quickImportCalls = 0
        /\ results = <<>>
        /\ dPc # "Classifying"
        /\ dPc = "Done" => dReturned = <<>>

C10_Witness ==
    /\ dDryRun /\ dPc = "Done" /\ Len(dryLogged) = 2 /\ Len(tools) = 3
    /\ dReturned = <<>> /\ Len(adapterCalls) = 2


(***************************************************************************)
(* Properties of ToolDiscovery.discover (under SpecDiscover)               *)
(***************************************************************************)
Min(a, b) == IF a < b THEN a ELSE b

\* Both filters of section 4.3, stated on one tool.
PassesBothFilters(tool) ==
    tool \in CryptoRelatedTools /\ tool.hasMCPSupport = "true"

Passing(seq) == SelectSeq(seq, PassesBothFilters)

\* The first n elements of seq, for n >= 0.
FirstN(seq, n) == SubSeq(seq, 1, Min(n, Len(seq)))

ToolsOf(res) == [i \in 1..Len(res) |-> res[i].tool]

\* The candidates of a non-dry run: the first `limit` tools passing both
\* filters.
ExpectedCandidates == FirstN(Passing(tools), dLimit)

\* The ids of the calls that resolved, in call order.
RECURSIVE PickResolved(_, _)
PickResolved(ids, outcomes) ==
    IF ids = <<>> \/ outcomes = <<>> THEN <<>>
    ELSE (IF Head(outcomes) = "resolved" THEN <<Head(ids)>> ELSE <<>>)
         \o PickResolved(Tail(ids), Tail(outcomes))

Failed(outcomes) == SelectSeq(outcomes, LAMBDA o : o # "resolved")

NonDryDone == dPc = "Done" /\ ~dDryRun

ExclusionsIn(returned) == Undef

\* The failed calls as line 116 logs them, in call order.
RECURSIVE PickFailed(_, _)
PickFailed(ids, outcomes) ==
    IF ids = <<>> \/ outcomes = <<>> THEN <<>>
    ELSE (IF Head(outcomes) # "resolved"
          THEN <<[id |-> Head(ids), error |-> Head(outcomes)]>> ELSE <<>>)
         \o PickFailed(Tail(ids), Tail(outcomes))

C13_SystemicFailurePropagates ==
    (~dCredentials /\ aiOutcomes # <<>>) =>
        /\ dPc = "Raised"
        /\ Len(aiCalls) = 1

\* The per-source lists joined in request order.
RECURSIVE Concat(_)
Concat(lists) ==
    IF lists = <<>> THEN <<>> ELSE Head(lists) \o Concat(Tail(lists))

HasAdapter(source) == source \in {"github", "npm"}

\* C14: a source adapter that throws neither makes discover raise nor aborts
\* it.  The source contributes zero tools, every other requested source is
\* still called, and the tools of the other sources are filtered and
\* classified as if the failing source had been empty.
C14_AdapterFailureContributesNothing ==
    /\ dPc # "Raised"
    /\ \A i \in adapterThrew : i <= Len(dPerSource) => dPerSource[i] = <<>>
    /\ tools = Concat(dPerSource)
    /\ dPc \in {"Classifying", "Done"} =>
          /\ Len(dPerSource) = Len(dSources)
          /\ adapterCalls = SelectSeq(dSources, HasAdapter)
    /\ NonDryDone =>
          aiCalls = Ids(FirstN(Passing(Concat(dPerSource)), dLimit))

\* github threw, npm was still called and its tool was classified and
\* returned.
C14_Witness ==
    /\ NonDryDone
    /\ dSources = <<"github", "npm">> /\ adapterThrew = {1}
    /\ adapterCalls = <<"github", "npm">>
    /\ Len(dPerSource[2]) = 2
    /\ Len(dReturned) = 1 /\ dReturned[1].tool.source = "npm"

ToolById(id) == CHOOSE t \in ToolUniverse : t.id = id

C16_CapOnlyAfterFilters ==
    (dLimit >= 0 /\ NonDryDone) =>
        /\ Len(dReturned) <= dLimit
        /\ LET passing == Passing(Concat(dHits))
               n == Min(dLimit, Len(passing))
           IN  /\ Len(aiCalls) = n
               /\ \A i \in 1..n : aiCalls[i] = passing[i].id

\* C17 as stated: the candidate list built from the requested sources holds
\* each tool id at most once (the first occurrence is kept), so no id is
\* classified or returned twice.
C17_EachIdAtMostOnce ==
    /\ NoDuplicates(Ids(tools))
    /\ NoDuplicates(aiCalls)
    /\ NoDuplicates(dryLogged)
    /\ NoDuplicates(Ids(ToolsOf(dReturned)))

RECURSIVE IsSubsequence(_, _)
IsSubsequence(s, all) ==
    IF s = <<>> THEN TRUE
    ELSE IF all = <<>> THEN FALSE
    ELSE IF Head(s) = Head(all) THEN IsSubsequence(Tail(s), Tail(all))
    ELSE IsSubsequence(s, Tail(all))

\* C18: the results are in filtered-candidate order.  The tools of the
\* results, like the tools handed to analyzeAndDecide, form a subsequence of
\* the per-source lists joined in the order the sources were requested, each
\* list in the order its adapter returned it.
C18_ResultsInCandidateOrder ==
    LET joined == Concat(dPerSource)
    IN  /\ IsSubsequence(aiCalls, Ids(joined))
        /\ IsSubsequence(ToolsOf(results), joined)
        /\ dPc = "Done" =>
              /\ IsSubsequence(ToolsOf(dReturned), joined)
              /\ IsSubsequence(ToolsOf(dReturned), FirstN(Passing(joined), dLimit))

\* npm was requested before github: the npm tool is returned before the
\* github tool.
C18_Witness ==
    /\ NonDryDone /\ dSources = <<"npm", "github">>
    /\ Len(dPerSource) = 2 /\ Len(dPerSource[1]) = 2 /\ Len(dPerSource[2]) = 1
    /\ Len(dReturned) = 2
    /\ dReturned[1].tool = dPerSource[1][2]
    /\ dReturned[2].tool = dPerSource[2][1]

AiEvents == SelectSeq(dTrace, LAMBDA e : e \in {"aiCall", "aiSettled"})

\* C19: at most one analyzeAndDecide call is in flight at any time.  The
\* calls started exceed the calls settled by at most one, and in the order of
\* events every call is followed by its settling before the next call starts.
C19_OneClassificationInFlight ==
    /\ aiInFlight \in {0, 1}
    /\ Len(aiCalls) - Len(aiOutcomes) = aiInFlight
    /\ \A i \in 1..Len(AiEvents) :
          AiEvents[i] = IF i % 2 = 1 THEN "aiCall" ELSE "aiSettled"

\* The call for the second candidate is in flight, the first has settled.
C19_Witness ==
    /\ dPc = "Classifying" /\ aiInFlight = 1
    /\ Len(aiCalls) = 2 /\ Len(aiOutcomes) = 1

PhaseNames == {"Collecting", "Filtering", "DryPreview", "Classifying", "Done"}
Phases == SelectSeq(dTrace, LAMBDA e : e \in PhaseNames)

IsPrefix(s, all) == Len(s) <= Len(all) /\ SubSeq(all, 1, Len(s)) = s

CountBefore(event, i) == Cardinality({j \in 1..(i - 1) : dTrace[j] = event})

\* No classification call starts before every requested adapter call has
\* settled and filtering has begun, and no adapter call is made once filtering
\* has begun.
CallsRespectPhases ==
    \A i \in 1..Len(dTrace) :
        /\ dTrace[i] = "aiCall" =>
              /\ CountBefore("Filtering", i) = 1
              /\ CountBefore("adapterCall", i) = Len(SelectSeq(dSources, HasAdapter))
              /\ CountBefore("adapterSettled", i) = CountBefore("adapterCall", i)
        /\ dTrace[i] = "adapterCall" => CountBefore("Filtering", i) = 0

FullDryRun == <<"Collecting", "Filtering", "DryPreview", "Done">>
FullClassifyingRun == <<"Collecting", "Filtering", "Classifying", "Done">>

\* C20 as stated: every invocation passes through Collecting, Filtering,
\* then DryPreview or Classifying, then Done, in that order and without going
\* back, and the calls respect the phases.
C20_EveryPhaseInOrder ==
    /\ IsPrefix(Phases, FullDryRun) \/ IsPrefix(Phases, FullClassifyingRun)
    /\ CallsRespectPhases

\* C20 amended: an invocation whose sources yielded no tool at all goes from
\* Collecting straight to Done; every other invocation passes through
\* Collecting, Filtering, then DryPreview (dry run) or Classifying, then
\* Done, in that order and without going back.  In both cases no
\* classification call starts before every requested adapter call has
\* settled, and no adapter call is made once filtering has begun.
C20_PhasesInOrderUnlessNothingCollected ==
    /\ \/ IsPrefix(Phases, FullDryRun) /\ (Len(Phases) > 2 => dDryRun)
       \/ IsPrefix(Phases, FullClassifyingRun) /\ (Len(Phases) > 2 => ~dDryRun)
       \/ Phases = <<"Collecting", "Done">> /\ tools = <<>>
    /\ dPc = "Done" =>
          /\ Phases[Len(Phases)] = "Done"
          /\ tools = <<>> <=> Phases = <<"Collecting", "Done">>
    /\ CallsRespectPhases

\* A run over two sources that went through all of Collecting, Filtering,
\* Classifying and Done with two adapter calls and two classification calls.
C20_Witness ==
    /\ Phases = FullClassifyingRun
    /\ CountBefore("adapterSettled", Len(dTrace)) = 2
    /\ CountBefore("aiSettled", Len(dTrace) + 1) = 2

\* ======================================================================
\* Validation of AI responses: src/src/schemas.ts
\* ======================================================================
\* A JSON value is a record tagged by its type.  Every object of one kind
\* carries all the keys its kind can have; a key the object does not have
\* holds Absent, which is also how zod reads a missing key.

Absent == [t |-> "undefined"]
Null == [t |-> "null"]
Str(s) == [t |-> "string", v |-> s]
NumberValue == [t |-> "number", v |-> 123]
Arr(s) == [t |-> "array", v |-> s]
IsString(x) == x.t = "string"
IsObject(x) == x.t = "object"
OptionalString(x) == x.t \in {"undefined", "string"}

\* the result of schema.safeParse
Ok(data) == [success |-> TRUE, data |-> data]
Invalid == [success |-> FALSE, data |-> Absent]

\* z.string().url(): the strings that the URL constructor takes
WellFormedUrls == {"https://mcp.example.com/sse", "https://example.com/manifest.json"}
IsUrl(x) == IsString(x) /\ x.v \in WellFormedUrls

Connection(type, url, command, args) ==
    [t |-> "object", type |-> type, url |-> url, command |-> command, args |-> args]
PluginMeta(title, description) ==
    [t |-> "object", title |-> title, description |-> description]
CustomParams(mcp, description, manifestUrl) ==
    [t |-> "object", mcp |-> mcp, description |-> description, manifestUrl |-> manifestUrl]
Config(identifier, customParams, manifest, author, meta, homepage) ==
    [t |-> "object", identifier |-> identifier, customParams |-> customParams,
     manifest |-> manifest, author |-> author, meta |-> meta, homepage |-> homepage]
AIResponse(template, reasoning, config) ==
    [t |-> "object", template |-> template, reasoning |-> reasoning, config |-> config]

PluginTemplates ==
    {"mcp-http", "mcp-stdio", "openapi", "basic", "default", "markdown", "standalone", "settings"}

PluginTemplateSchema(x) ==
    IF IsString(x) /\ x.v \in PluginTemplates THEN Ok(x) ELSE Invalid

\* z.object keeps the keys of the schema and strips every other key
MCPHttpConfigSchema(x) ==
    IF IsObject(x) /\ x.type = Str("http") /\ IsUrl(x.url)
    THEN Ok(Connection(x.type, x.url, Absent, Absent))
    ELSE Invalid

MCPStdioConfigSchema(x) ==
    IF IsObject(x) /\ x.type = Str("stdio") /\ IsString(x.command)
       /\ x.args.t \in {"undefined", "array"}
    THEN Ok(Connection(x.type, Absent, x.command, x.args))
    ELSE Invalid

\* z.discriminatedUnion('type', ...): the tag picks the one schema to apply
MCPConnectionSchema(x) ==
    IF ~IsObject(x) THEN Invalid
    ELSE IF x.type = Str("http") THEN MCPHttpConfigSchema(x)
    ELSE IF x.type = Str("stdio") THEN MCPStdioConfigSchema(x)
    ELSE Invalid

PluginMetaSchema(x) ==
    IF IsObject(x) /\ IsString(x.title) /\ IsString(x.description)
    THEN Ok(PluginMeta(x.title, x.description))
    ELSE Invalid

\* the original of MCPPluginConfigSchema with `description` left out of the
\* inner object, so that zod strips it
MCPPluginConfigSchemaWithoutDescription(c) ==
    IF IsObject(c) /\ IsString(c.identifier) /\ IsObject(c.customParams)
       /\ MCPConnectionSchema(c.customParams.mcp).success
    THEN Ok(Config(c.identifier,
                   CustomParams(MCPConnectionSchema(c.customParams.mcp).data, Absent, Absent),
                   Absent, Absent, Absent, Absent))
    ELSE Invalid

MCPPluginConfigSchema(c) ==
    IF IsObject(c) /\ IsString(c.identifier) /\ IsObject(c.customParams)
       /\ MCPConnectionSchema(c.customParams.mcp).success
       /\ OptionalString(c.customParams.description)
    THEN Ok(Config(c.identifier,
                   CustomParams(MCPConnectionSchema(c.customParams.mcp).data,
                                c.customParams.description, Absent),
                   Absent, Absent, Absent, Absent))
    ELSE Invalid

StandardPluginConfigSchema(c) ==
    IF IsObject(c) /\ IsString(c.identifier) /\ OptionalString(c.manifest)
       /\ OptionalString(c.author)
       /\ (c.meta = Absent \/ PluginMetaSchema(c.meta).success)
    THEN Ok(Config(c.identifier, Absent, c.manifest, c.author,
                   IF c.meta = Absent THEN Absent ELSE PluginMetaSchema(c.meta).data,
                   Absent))
    ELSE Invalid

\* z.union([MCPPluginConfigSchema, StandardPluginConfigSchema]): the first
\* option that accepts the value gives the result
ConfigUnion(c) ==
    IF MCPPluginConfigSchema(c).success THEN MCPPluginConfigSchema(c)
    ELSE StandardPluginConfigSchema(c)

AIAnalysisResponseSchema(data) ==
    IF IsObject(data) /\ PluginTemplateSchema(data.template).success
       /\ IsString(data.reasoning) /\ ConfigUnion(data.config).success
    THEN Ok(AIResponse(data.template, data.reasoning, ConfigUnion(data.config).data))
    ELSE Invalid

\* the outcome of a call: it threw, or it returned `value`
Threw(name) == [threw |-> TRUE, error |-> name, value |-> Absent]
Returned(value) == [threw |-> FALSE, error |-> "", value |-> value]
NotCalled == [threw |-> FALSE, error |-> "not called", value |-> Absent]

parseAIResponse(data) ==
    IF AIAnalysisResponseSchema(data).success
    THEN Returned(AIAnalysisResponseSchema(data).data)
    ELSE Threw("ZodError")

\* a safeParse that answers a failure with a decision of its own
safeParseAIResponseWithDefault(data) ==
    IF AIAnalysisResponseSchema(data).success
    THEN Returned(AIAnalysisResponseSchema(data).data)
    ELSE Returned(AIResponse(Str("default"), Str(""), Config(Str(""), Absent, Absent, Absent, Absent, Absent)))

safeParseAIResponse(data) ==
    IF AIAnalysisResponseSchema(data).success
    THEN Returned(AIAnalysisResponseSchema(data).data)
    ELSE Returned(Null)

\* a check of the type alone, which takes every string
isValidTemplateAnyString(template) == IsString(template)

isValidTemplate(template) == PluginTemplateSchema(template).success

\* ---- the inputs ----
TemplateValues ==
    {Str(s) : s \in PluginTemplates \cup {"invalid-template", ""}} \cup {NumberValue, Absent}
ReasoningValues == {Str("Has MCP SDK and bin entry"), NumberValue, Absent}
ConnectionValues ==
    { Absent,
      Connection(Str("http"), Str("https://mcp.example.com/sse"), Absent, Absent),
      Connection(Str("http"), Str("not-a-url"), Absent, Absent),
      Connection(Str("stdio"), Absent, Str("npx"), Arr(<<"-y", "my-mcp-tool">>)),
      Connection(Str("stdio"), Absent, Absent, Absent),
      Connection(Str("sse"), Str("https://mcp.example.com/sse"), Absent, Absent) }
CustomParamsValues ==
    {Absent} \cup
    { CustomParams(m, Str("A great tool"), u) :
        m \in ConnectionValues, u \in {Absent, Str("https://example.com/manifest.json")} }
ConfigValues ==
    {Absent, Str("config")} \cup
    { Config(i, p, m, a, e, h) :
        i \in {Absent, Str("my-mcp-tool")},
        p \in CustomParamsValues,
        m \in {Absent, Str("https://example.com/manifest.json"), [t |-> "object"]},
        a \in {Absent, Str("me")},
        e \in {Absent, PluginMeta(Str("My API"), Str("An API plugin"))},
        h \in {Absent, Str("https://example.com")} }
AIResponseValues ==
    {Null, Str("not an object")} \cup
    { AIResponse(tpl, r, c) : tpl \in TemplateValues, r \in ReasoningValues, c \in ConfigValues }

\* ---- the checks of one drawn response ----
SchemaInit ==
    /\ fPc = "schema"
    /\ fIn \in AIResponseValues
    /\ fOut = [parse |-> NotCalled, safeParse |-> NotCalled, again |-> NotCalled,
               isValid |-> "not called"]

\* the template of the drawn response, the argument given to isValidTemplate
TemplateOf(data) == IF IsObject(data) THEN data.template ELSE data

ParseAIResponse ==
    /\ fPc = "schema"
    /\ fOut.parse = NotCalled
    /\ fOut' = [fOut EXCEPT !.parse = parseAIResponse(fIn)]
    /\ UNCHANGED <<fPc, fIn>>
    /\ UNCHANGED <<retryVars, backoffVars, discoverVars, opVars>>

SafeParseAIResponse ==
    /\ fPc = "schema"
    /\ fOut.safeParse = NotCalled
    /\ fOut' = [fOut EXCEPT !.safeParse = safeParseAIResponse(fIn)]
    /\ UNCHANGED <<fPc, fIn>>
    /\ UNCHANGED <<retryVars, backoffVars, discoverVars, opVars>>

\* the value that parseAIResponse returned is validated once more
ParseAgain ==
    /\ fPc = "schema"
    /\ fOut.parse # NotCalled
    /\ ~fOut.parse.threw
    /\ fOut.again = NotCalled
    /\ fOut' = [fOut EXCEPT !.again = parseAIResponse(fOut.parse.value)]
    /\ UNCHANGED <<fPc, fIn>>
    /\ UNCHANGED <<retryVars, backoffVars, discoverVars, opVars>>

IsValidTemplate ==
    /\ fPc = "schema"
    /\ fOut.isValid = "not called"
    /\ fOut' = [fOut EXCEPT !.isValid = IF isValidTemplate(TemplateOf(fIn)) THEN "true" ELSE "false"]
    /\ UNCHANGED <<fPc, fIn>>
    /\ UNCHANGED <<retryVars, backoffVars, discoverVars, opVars>>

SchemaNext == ParseAIResponse \/ SafeParseAIResponse \/ ParseAgain \/ IsValidTemplate

InitSchema == SchemaInit /\ RetryIdle /\ BackoffIdle /\ DiscoverIdle /\ OpIdle
SpecSchema == InitSchema /\ [][SchemaNext]_vars

\* ----------------------------------------------------------------------
\* Properties of the response schemas (under SpecSchema)
\* ----------------------------------------------------------------------
MCPTemplates == {Str("mcp-http"), Str("mcp-stdio")}
ParseCalled == fPc = "schema" /\ fOut.parse # NotCalled
Accepted == ParseCalled /\ ~fOut.parse.threw

\* the descriptor type that goes with a protocol template
MatchingType(template) == IF template = Str("mcp-http") THEN Str("http") ELSE Str("stdio")

\* the config carries a connection descriptor, tagged `type`
HasDescriptor(config, type) ==
    /\ IsObject(config)
    /\ IsObject(config.customParams)
    /\ IsObject(config.customParams.mcp)
    /\ config.customParams.mcp.type = type

\* C21: parseAIResponse rejects every response whose template is mcp-http or
\* mcp-stdio and whose config holds no connection descriptor of the matching
\* type (http for mcp-http, stdio for mcp-stdio).
C21_MismatchedDescriptorRejected ==
    (/\ ParseCalled
     /\ IsObject(fIn)
     /\ fIn.template \in MCPTemplates
     /\ ~HasDescriptor(fIn.config, MatchingType(fIn.template)))
    => fOut.parse.threw

\* C22: every accepted decision has an MCP-style config (identifier and
\* customParams.mcp) exactly when its template is mcp-http or mcp-stdio, and a
\* standard config for the six other templates.
C22_ConfigShapeFollowsTemplate ==
    Accepted =>
        LET decision == fOut.parse.value IN
        /\ IsString(decision.config.identifier)
        /\ (decision.template \in MCPTemplates
              <=> (IsObject(decision.config.customParams)
                   /\ IsObject(decision.config.customParams.mcp)))

\* a TemplateDecision: a template of the closed set, a reasoning text, and the
\* config that goes with the template, either identifier + matching connection
\* descriptor + description, or identifier + manifest + author + meta
IsTemplateDecision(d) ==
    /\ IsObject(d)
    /\ IsString(d.template) /\ d.template.v \in PluginTemplates
    /\ IsString(d.reasoning)
    /\ IsObject(d.config)
    /\ IsString(d.config.identifier)
    /\ d.config.homepage = Absent
    /\ IF d.template \in MCPTemplates
       THEN /\ HasDescriptor(d.config, MatchingType(d.template))
            /\ \/ d.config.customParams.mcp.type = Str("http") /\ IsUrl(d.config.customParams.mcp.url)
               \/ d.config.customParams.mcp.type = Str("stdio") /\ IsString(d.config.customParams.mcp.command)
            /\ d.config.customParams.manifestUrl = Absent
            /\ d.config.manifest = Absent /\ d.config.author = Absent /\ d.config.meta = Absent
       ELSE /\ d.config.customParams = Absent
            /\ IsString(d.config.manifest) /\ IsString(d.config.author) /\ IsObject(d.config.meta)

C24_SafeParseAgreesWithParse ==
    (ParseCalled /\ fOut.safeParse # NotCalled) =>
        /\ ~fOut.safeParse.threw
        /\ fOut.parse.threw <=> fOut.safeParse.value = Null
        /\ ~fOut.parse.threw => fOut.safeParse.value = fOut.parse.value

C24_Witness ==
    /\ ParseCalled
    /\ fOut.parse.threw
    /\ fOut.safeParse = Returned(Null)
    /\ IsObject(fIn)
    /\ fIn.template = Str("invalid-template")

\* C25: isValidTemplate answers true for the eight template identifiers and
\* false for every other value, and parseAIResponse throws for every response
\* whose template is not one of the eight.
C25_ExactlyEightTemplates ==
    LET eight == {Str("mcp-http"), Str("mcp-stdio"), Str("openapi"), Str("basic"),
                  Str("default"), Str("markdown"), Str("standalone"), Str("settings")}
    IN  /\ (fPc = "schema" /\ fOut.isValid # "not called")
              => (fOut.isValid = "true" <=> TemplateOf(fIn) \in eight)
        /\ (ParseCalled /\ TemplateOf(fIn) \notin eight) => fOut.parse.threw

C25_Witness ==
    /\ ParseCalled
    /\ IsObject(fIn)
    /\ fIn.template = Str("")
    /\ IsString(fIn.reasoning)
    /\ StandardPluginConfigSchema(fIn.config).success
    /\ fOut.isValid = "false"
    /\ fOut.parse.threw

\* ======================================================================
\* ToolDiscovery.analyzeGitHubRepo and analyzeNpmPackage
\* (src/src/index.ts 155-216)
\* ======================================================================
\* What getRepo / getPackageAsTool resolve with when the repository or the
\* package does not exist.
NoTool == [id |-> "null"]

AnalyzeTargets ==
    {tool.id : tool \in ToolUniverse} \cup {"github:none/none", "npm:non-existent-package"}

SourceOf(method) == IF method = "analyzeGitHubRepo" THEN "github" ELSE "npm"

\* github.getRepo(owner, repo) / npm.getPackageAsTool(name): the tool of the
\* adapter's own source with that name, or null
AdapterLookup(method, target) ==
    IF \E tool \in ToolUniverse : tool.id = target /\ tool.source = SourceOf(method)
    THEN CHOOSE tool \in ToolUniverse : tool.id = target /\ tool.source = SourceOf(method)
    ELSE NoTool

\* a method that goes on to the analysis whatever the adapter answered
ToolMissingNever(tool) == FALSE

\* `if (!tool)`
ToolMissing(tool) == tool = NoTool

NotSettled == [kind |-> "pending"]
ReturnedNull == [kind |-> "null"]
ReturnedResult(result) == [kind |-> "result", value |-> result]
Rejected(error) == [kind |-> "rejected", error |-> error]

AnalyzeInit ==
    /\ oPc = "start"
    /\ oIn \in [method : {"analyzeGitHubRepo", "analyzeNpmPackage"},
                target : AnalyzeTargets,
                credentials : BOOLEAN]
    /\ oSt = [tool |-> NoTool, aiCalls |-> 0, quickImportCalls |-> 0,
              log |-> <<>>, result |-> NotSettled]

\* index.ts 156-158 / 189-191: log, then await the adapter
AnalyzeCall ==
    /\ oPc = "start"
    /\ oPc' = "fetching"
    /\ oSt' = [oSt EXCEPT !.log = Append(@, "Fetching")]
    /\ UNCHANGED oIn
    /\ UNCHANGED <<retryVars, backoffVars, discoverVars, fnVars>>

\* index.ts 159-162 / 192-195
FetchNotFound ==
    /\ oPc = "fetching"
    /\ ToolMissing(AdapterLookup(oIn.method, oIn.target))
    /\ oPc' = "returned"
    /\ oSt' = [oSt EXCEPT !.log = Append(@, "not found"), !.result = ReturnedNull]
    /\ UNCHANGED oIn
    /\ UNCHANGED <<retryVars, backoffVars, discoverVars, fnVars>>

\* index.ts 164-165 / 197-198: the classification call is started
FetchFound ==
    /\ oPc = "fetching"
    /\ ~ToolMissing(AdapterLookup(oIn.method, oIn.target))
    /\ oPc' = "analyzing"
    /\ oSt' = [oSt EXCEPT !.tool = AdapterLookup(oIn.method, oIn.target),
                          !.log = Append(@, "Analyzing"),
                          !.aiCalls = @ + 1]
    /\ UNCHANGED oIn
    /\ UNCHANGED <<retryVars, backoffVars, discoverVars, fnVars>>

\* the adapter call rejects; nothing in the method catches it
FetchThrows ==
    /\ oPc = "fetching"
    /\ oPc' = "rejected"
    /\ oSt' = [oSt EXCEPT !.result = Rejected("AdapterError")]
    /\ UNCHANGED oIn
    /\ UNCHANGED <<retryVars, backoffVars, discoverVars, fnVars>>

\* index.ts 167-182 / 200-215
AnalysisOk ==
    /\ oPc = "analyzing"
    /\ oIn.credentials
    /\ \E decision \in Decisions(oSt.tool) :
          oSt' = [oSt EXCEPT !.log = Append(@, "Analysis complete"),
                             !.quickImportCalls = @ + 1,
                             !.result = ReturnedResult(DiscoveryResult(oSt.tool, decision))]
    /\ oPc' = "returned"
    /\ UNCHANGED oIn
    /\ UNCHANGED <<retryVars, backoffVars, discoverVars, fnVars>>

\* a method that answers a failed analysis with null
AnalysisErrorOutcomeAsNull(error) == ReturnedNull

\* index.ts 165 / 198: the await is in no try block, so the rejection of
\* analyzeAndDecide is the rejection of the method
AnalysisErrorOutcome(error) == Rejected(error)

\* analyzeAndDecide rejects
AnalysisFails ==
    /\ oPc = "analyzing"
    /\ oPc' = IF AnalysisErrorOutcome(AnalysisFailure(oIn.credentials)).kind = "rejected"
              THEN "rejected" ELSE "returned"
    /\ oSt' = [oSt EXCEPT !.result = AnalysisErrorOutcome(AnalysisFailure(oIn.credentials))]
    /\ UNCHANGED oIn
    /\ UNCHANGED <<retryVars, backoffVars, discoverVars, fnVars>>

AnalyzeNext ==
    \/ AnalyzeCall
    \/ FetchNotFound
    \/ FetchFound
    \/ FetchThrows
    \/ AnalysisOk
    \/ AnalysisFails

InitAnalyze == AnalyzeInit /\ RetryIdle /\ BackoffIdle /\ DiscoverIdle /\ FnIdle
SpecAnalyze == InitAnalyze /\ [][AnalyzeNext]_vars

\* ----------------------------------------------------------------------
\* Properties of analyzeGitHubRepo / analyzeNpmPackage (under SpecAnalyze)
\* ----------------------------------------------------------------------
Analyzing == oPc \in {"start", "fetching", "analyzing", "returned", "rejected"}

\* C26: when the adapter answers not found, the method returns null and makes
\* no classification call; a DiscoveryResult is returned only for the tool the
\* adapter returned.
C26_NotFoundReturnsNullWithoutAnalysis ==
    Analyzing =>
        /\ AdapterLookup(oIn.method, oIn.target) = NoTool =>
              /\ oSt.aiCalls = 0
              /\ oPc = "returned" => oSt.result = ReturnedNull
        /\ oSt.result.kind = "result" =>
              /\ oSt.result.value.tool \in ToolUniverse
              /\ oSt.result.value.tool = AdapterLookup(oIn.method, oIn.target)
              /\ oSt.result.value.tool.id = oIn.target
              /\ oSt.aiCalls = 1

C26_Witness ==
    /\ oPc = "returned"
    /\ oIn.method = "analyzeNpmPackage"
    /\ oIn.target = "npm:non-existent-package"
    /\ oSt.result = ReturnedNull
    /\ oSt.aiCalls = 0
    /\ oSt.log = <<"Fetching", "not found">>

\* ======================================================================
\* discoverLlmsTxt and quickCheckLlmsTxt (src/unnamed/part_001 122-315)
\* ======================================================================
\* Candidate URLs are numbered 1..n in the order generateDocUrls lists them
\* (0 stands for a null url); time is counted in ticks since startTime.
MaxCandidates == 7
MaxTimeoutMs == 2
MaxElapsedMs == 4
batchSize == 5

\* urlsToScan.slice(i, i + batchSize), i counted from 0
Batch(i, n) == {u \in 1..n : u > i /\ u <= i + batchSize}

\* a loop that never looks at the clock
DeadlinePassedNever(elapsed, timeoutMs) == FALSE

\* `Date.now() - startTime > timeoutMs`
DeadlinePassed(elapsed, timeoutMs) == elapsed > timeoutMs

\* setTimeout(() => controller.abort(), timeoutMs) has fired
Aborted(elapsed, timeoutMs) == elapsed >= timeoutMs

filesToTry == <<"llms-full.txt", "llms.txt">>

\* `${normalizedBase}/${file}`
Link(base, file) == [base |-> base, file |-> file]
NullLink == [base |-> 0, file |-> "null"]

TypeOf(file) == IF file = "llms-full.txt" THEN "llms-full" ELSE "llms-standard"

\* the two values checkForLlmsTxt resolves to (163-167 and 177)
FoundCheck(base, file) ==
    [found |-> TRUE, url |-> Link(base, file), type |-> TypeOf(file)]
NotFoundCheck == [found |-> FALSE, url |-> NullLink, type |-> "null"]

\* a check that reports a file whenever its fetch was rejected
CheckAfterFetchErrorAsFound(base) == FoundCheck(base, "llms.txt")

\* 172-177: a rejected fetch is swallowed for each file and the check
\* resolves not found
CheckAfterFetchError(base) == NotFoundCheck

\* the DiscoveryResult interface of part_001 10-17
LlmsResult(found, url, llmsTxtUrl, type, scannedUrls, timeElapsed) ==
    [kind |-> "returned", found |-> found, url |-> url,
     llmsTxtUrl |-> llmsTxtUrl, type |-> type,
     scannedUrls |-> scannedUrls, timeElapsed |-> timeElapsed]

\* 269-276
NotFoundResult(scannedUrls, timeElapsed) ==
    LlmsResult(FALSE, 0, NullLink, "null", scannedUrls, timeElapsed)

Hits(settled) == {p \in settled : p.result.found}

\* a loop that goes on to the next batch whatever the results were
HitInBatchIgnored(settled) == FALSE

\* 232-233: some result of the batch has found set
HitInBatch(settled) == Hits(settled) # {}

\* the last found result of the batch
LastHit(settled) ==
    CHOOSE p \in Hits(settled) : \A q \in Hits(settled) : q.url <= p.url

\* 232-253: results are visited in batch order and the first found one wins
FirstHit(settled) ==
    CHOOSE p \in Hits(settled) : \A q \in Hits(settled) : p.url <= q.url

\* a quick check that reports the url whatever the check said
QuickUrlAlways(found, url) == url

\* 309: `result.found ? url : null`
QuickUrl(found, url) == IF found THEN url ELSE 0

LlmsInputs ==
    [mode : {"discover"}, n : 1..MaxCandidates, timeoutMs : 1..MaxTimeoutMs]
        \cup [mode : {"quick"}, url : {1}]

LlmsInit ==
    /\ oIn \in LlmsInputs
    /\ oPc = IF oIn.mode = "discover" THEN "loop" ELSE "quick"
    /\ oSt = [i |-> 0, scannedUrls |-> <<>>, pending |-> {}, settled |-> {},
              elapsed |-> 0, startedLate |-> {}, foundAt |-> 0,
              succeeded |-> {}, checked |-> {}, fetchFailed |-> FALSE,
              result |-> NotSettled]

\* the signal handed to the checks in flight has been aborted; quickCheckLlmsTxt
\* passes no signal (305)
SignalAborted ==
    oIn.mode = "discover" /\ Aborted(oSt.elapsed, oIn.timeoutMs)

\* time passes while the function is not yet settled
LlmsTick ==
    /\ oPc \in {"loop", "awaiting", "quickAwaiting"}
    /\ oSt.elapsed < MaxElapsedMs
    /\ oSt' = [oSt EXCEPT !.elapsed = @ + 1]
    /\ UNCHANGED <<oPc, oIn>>
    /\ UNCHANGED <<retryVars, backoffVars, discoverVars, fnVars>>

\* part_001 206-229: the deadline check, then every URL of the batch is
\* pushed on scannedUrls and its checkForLlmsTxt is started
BatchStart ==
    /\ oPc = "loop"
    /\ oSt.i < oIn.n
    /\ ~DeadlinePassed(oSt.elapsed, oIn.timeoutMs)
    /\ oPc' = "awaiting"
    /\ oSt' = [oSt EXCEPT
                 !.scannedUrls = @ \o [k \in 1..Cardinality(Batch(oSt.i, oIn.n)) |-> oSt.i + k],
                 !.pending = Batch(oSt.i, oIn.n),
                 !.settled = {},
                 !.startedLate = @ \cup (IF oSt.elapsed > oIn.timeoutMs
                                         THEN Batch(oSt.i, oIn.n) ELSE {})]
    /\ UNCHANGED oIn
    /\ UNCHANGED <<retryVars, backoffVars, discoverVars, fnVars>>

\* part_001 208-210 and 259-278: break, then the not-found return
DeadlineBreak ==
    /\ oPc = "loop"
    /\ oSt.i < oIn.n
    /\ DeadlinePassed(oSt.elapsed, oIn.timeoutMs)
    /\ oPc' = "returned"
    /\ oSt' = [oSt EXCEPT !.result = NotFoundResult(oSt.scannedUrls, oSt.elapsed)]
    /\ UNCHANGED oIn
    /\ UNCHANGED <<retryVars, backoffVars, discoverVars, fnVars>>

\* part_001 259-278: every candidate was scanned and none was found
AllScanned ==
    /\ oPc = "loop"
    /\ oSt.i >= oIn.n
    /\ oPc' = "returned"
    /\ oSt' = [oSt EXCEPT !.result = NotFoundResult(oSt.scannedUrls, oSt.elapsed)]
    /\ UNCHANGED oIn
    /\ UNCHANGED <<retryVars, backoffVars, discoverVars, fnVars>>

\* checkForLlmsTxt (132-168) resolves found for one of the two files: its HEAD
\* and GET were answered and the body was read before the signal was aborted
CheckFound ==
    /\ oPc \in {"awaiting", "quickAwaiting"}
    /\ ~SignalAborted
    /\ \E u \in oSt.pending : \E k \in DOMAIN filesToTry :
          oSt' = [oSt EXCEPT !.pending = @ \ {u},
                             !.settled = @ \cup {[url |-> u, result |-> FoundCheck(u, filesToTry[k])]},
                             !.succeeded = @ \cup {u},
                             !.checked = @ \cup {u},
                             !.foundAt = oSt.elapsed]
    /\ UNCHANGED <<oPc, oIn>>
    /\ UNCHANGED <<retryVars, backoffVars, discoverVars, fnVars>>

\* checkForLlmsTxt resolves not found (177): both files were answered, neither
\* with an acceptable body
CheckNotFound ==
    /\ oPc \in {"awaiting", "quickAwaiting"}
    /\ ~SignalAborted
    /\ \E u \in oSt.pending :
          oSt' = [oSt EXCEPT !.pending = @ \ {u},
                             !.settled = @ \cup {[url |-> u, result |-> NotFoundCheck]},
                             !.checked = @ \cup {u}]
    /\ UNCHANGED <<oPc, oIn>>
    /\ UNCHANGED <<retryVars, backoffVars, discoverVars, fnVars>>

\* a fetch of the check rejects (network error, or the signal was aborted) and
\* no file was found: the catch of 172-174 decides what the check resolves to
CheckFetchFails ==
    /\ oPc \in {"awaiting", "quickAwaiting"}
    /\ \E u \in oSt.pending :
          oSt' = [oSt EXCEPT !.pending = @ \ {u},
                             !.settled = @ \cup {[url |-> u, result |-> CheckAfterFetchError(u)]},
                             !.checked = @ \cup {u},
                             !.fetchFailed = TRUE]
    /\ UNCHANGED <<oPc, oIn>>
    /\ UNCHANGED <<retryVars, backoffVars, discoverVars, fnVars>>

\* part_001 231-256: Promise.all resolved; the first found result of the batch
\* is returned, otherwise the loop goes on with the next batch
BatchSettled ==
    /\ oPc = "awaiting"
    /\ oSt.pending = {}
    /\ IF HitInBatch(oSt.settled)
       THEN /\ oPc' = "returned"
            /\ oSt' = [oSt EXCEPT !.result =
                          LlmsResult(TRUE, FirstHit(oSt.settled).url,
                                     FirstHit(oSt.settled).result.url,
                                     FirstHit(oSt.settled).result.type,
                                     oSt.scannedUrls, oSt.elapsed)]
       ELSE /\ oPc' = "loop"
            /\ oSt' = [oSt EXCEPT !.i = @ + batchSize]
    /\ UNCHANGED oIn
    /\ UNCHANGED <<retryVars, backoffVars, discoverVars, fnVars>>

\* quickCheckLlmsTxt 303-305: the one check is started, without a signal
QuickCall ==
    /\ oPc = "quick"
    /\ oPc' = "quickAwaiting"
    /\ oSt' = [oSt EXCEPT !.pending = {oIn.url}]
    /\ UNCHANGED oIn
    /\ UNCHANGED <<retryVars, backoffVars, discoverVars, fnVars>>

\* quickCheckLlmsTxt 307-314
QuickSettled ==
    /\ oPc = "quickAwaiting"
    /\ oSt.pending = {}
    /\ oPc' = "returned"
    /\ \E p \in oSt.settled :
          oSt' = [oSt EXCEPT
                    !.scannedUrls = <<oIn.url>>,
                    !.result = LlmsResult(p.result.found,
                                          QuickUrl(p.result.found, oIn.url),
                                          p.result.url, p.result.type,
                                          <<oIn.url>>, oSt.elapsed)]
    /\ UNCHANGED oIn
    /\ UNCHANGED <<retryVars, backoffVars, discoverVars, fnVars>>

LlmsNext ==
    \/ LlmsTick
    \/ BatchStart
    \/ DeadlineBreak
    \/ AllScanned
    \/ CheckFound
    \/ CheckNotFound
    \/ CheckFetchFails
    \/ BatchSettled
    \/ QuickCall
    \/ QuickSettled

InitLlms == LlmsInit /\ RetryIdle /\ BackoffIdle /\ DiscoverIdle /\ FnIdle
SpecLlms == InitLlms /\ [][LlmsNext]_vars

\* ----------------------------------------------------------------------
\* Properties of discoverLlmsTxt (under SpecLlms)
\* ----------------------------------------------------------------------
LlmsRunning == oPc \in {"loop", "awaiting", "returned"} /\ oIn.mode = "discover"
LlmsReturnedLate ==
    LlmsRunning /\ oPc = "returned" /\ oSt.result.timeElapsed > oIn.timeoutMs

\* C27: once the elapsed time exceeds timeoutMs no further batch is started and
\* no remaining candidate is fetched, and the call returns found = false with
\* the URLs scanned so far.
C27_LateReturnIsNotFound ==
    /\ LlmsRunning => oSt.startedLate = {}
    /\ LlmsReturnedLate =>
          /\ oSt.result.found = FALSE
          /\ oSt.result.scannedUrls = oSt.scannedUrls

\* C27 (amended): once the elapsed time exceeds timeoutMs no further batch is
\* started and no remaining candidate is fetched; the call returns the URLs
\* scanned so far without raising, with found = false unless a candidate of the
\* batch in flight was found before the deadline.
C27_NoBatchAfterDeadline ==
    /\ LlmsRunning =>
          /\ oSt.startedLate = {}
          /\ oPc # "returned" => oSt.result = NotSettled
    /\ LlmsReturnedLate =>
          /\ oSt.result.kind = "returned"
          /\ oSt.result.scannedUrls = oSt.scannedUrls
          /\ Len(oSt.scannedUrls) <= oIn.n
          /\ \A k \in 1..Len(oSt.scannedUrls) : oSt.scannedUrls[k] = k
          /\ oSt.result.found =>
                /\ oSt.foundAt < oIn.timeoutMs
                /\ oSt.result.url \in Batch(oSt.i, oIn.n)

C27_Witness ==
    /\ LlmsReturnedLate
    /\ oSt.result.found = FALSE
    /\ oSt.scannedUrls = <<1, 2, 3, 4, 5>>
    /\ oIn.n > batchSize

\* ======================================================================
\* getRetryAfter on header text (src/src/errors.ts 136-154)
\* ======================================================================
\* A header as response.headers.get gives it: null, or its text, a sequence
\* of characters.
NullHeader == [present |-> FALSE, text |-> <<>>]
HeaderText(text) == [present |-> TRUE, text |-> text]

DigitChars == <<"0", "1", "2", "3", "4", "5", "6", "7", "8", "9">>
IsDigit(c) == \E d \in DOMAIN DigitChars : DigitChars[d] = c
DigitValue(c) == (CHOOSE d \in DOMAIN DigitChars : DigitChars[d] = c) - 1

RECURSIVE TrimStart(_)
TrimStart(s) == IF s # <<>> /\ Head(s) = " " THEN TrimStart(Tail(s)) ELSE s

RECURSIVE LeadingDigits(_)
LeadingDigits(s) ==
    IF s = <<>> \/ ~IsDigit(Head(s)) THEN <<>>
    ELSE <<Head(s)>> \o LeadingDigits(Tail(s))

RECURSIVE DecimalValue(_)
DecimalValue(ds) ==
    IF ds = <<>> THEN 0
    ELSE DecimalValue(SubSeq(ds, 1, Len(ds) - 1)) * 10 + DigitValue(ds[Len(ds)])

\* parseInt(text, 10): leading blanks, an optional sign, then the longest run
\* of digits; NaN (Undef) when there is no digit
parseInt(text) ==
    LET s == TrimStart(text)
        signed == s # <<>> /\ Head(s) \in {"-", "+"}
        ds == LeadingDigits(IF signed THEN Tail(s) ELSE s)
    IN  IF ds = <<>> THEN Undef
        ELSE IF signed /\ Head(s) = "-" THEN Num(0 - DecimalValue(ds))
        ELSE Num(DecimalValue(ds))

\* `if (retryAfter)` / `if (resetAt)` and the parseInt that follows: a null or
\* empty header is skipped, another one is an integer or NaN
ReadHeader(h) ==
    IF ~h.present \/ h.text = <<>> THEN AbsentHdr
    ELSE IF parseInt(h.text).def THEN Hdr("int", parseInt(h.text).val)
    ELSE Hdr("nan", 0)

RetryAfterTexts ==
    {NullHeader} \cup
    {HeaderText(s) : s \in {<<>>, <<"0">>, <<"2">>, <<"3", "0">>, <<"3", "0", "s">>,
                            <<"1", ".", "5">>, <<" ", "7">>, <<"-", "1">>,
                            <<"a", "b", "c">>, <<"W", "e", "d", ",", " ", "2", "1">>}}
ResetTexts ==
    {NullHeader} \cup
    {HeaderText(s) : s \in {<<>>, <<"9">>, <<"1", "0">>, <<"1", "1">>, <<"1", "2">>,
                            <<"7", "0">>, <<"s", "o", "o", "n">>}}

RetryAfterInit ==
    /\ fPc = "getRetryAfter"
    /\ fIn \in [retryAfter : RetryAfterTexts, reset : ResetTexts]
    /\ fOut = [computed |-> FALSE, value |-> Undef]

GetRetryAfter ==
    /\ fPc = "getRetryAfter"
    /\ ~fOut.computed
    /\ fOut' = [computed |-> TRUE,
                value |-> getRetryAfter(Response(429, "absent", ReadHeader(fIn.retryAfter),
                                                 ReadHeader(fIn.reset)))]
    /\ UNCHANGED <<fPc, fIn>>
    /\ UNCHANGED <<retryVars, backoffVars, discoverVars, opVars>>

RetryAfterNext == GetRetryAfter

InitRetryAfter == RetryAfterInit /\ RetryIdle /\ BackoffIdle /\ DiscoverIdle /\ OpIdle
SpecRetryAfter == InitRetryAfter /\ [][RetryAfterNext]_vars

\* ----------------------------------------------------------------------
\* Properties of getRetryAfter (under SpecRetryAfter)
\* ----------------------------------------------------------------------
\* the header texts of the inputs that start with an integer, and that integer
IntegerTexts ==
    {<<<<"0">>, 0>>, <<<<"2">>, 2>>, <<<<"3", "0">>, 30>>, <<<<"3", "0", "s">>, 30>>,
     <<<<"1", ".", "5">>, 1>>, <<<<" ", "7">>, 7>>, <<<<"-", "1">>, 0 - 1>>,
     <<<<"9">>, 9>>, <<<<"1", "0">>, 10>>, <<<<"1", "1">>, 11>>, <<<<"1", "2">>, 12>>,
     <<<<"7", "0">>, 70>>}
ParsesAsInteger(h) == h.present /\ \E p \in IntegerTexts : p[1] = h.text
IntegerOf(h) == (CHOOSE p \in IntegerTexts : p[1] = h.text)[2]

\* C28: getRetryAfter returns the integer of retry-after whenever that header
\* parses as one; otherwise, when x-ratelimit-reset is an instant in the
\* future, the seconds until it rounded up, a number above 0; otherwise
\* undefined.
C28_RetryAfterThenResetThenUndefined ==
    (fPc = "getRetryAfter" /\ fOut.computed) =>
        IF ParsesAsInteger(fIn.retryAfter)
        THEN fOut.value = Num(IntegerOf(fIn.retryAfter))
        ELSE IF ParsesAsInteger(fIn.reset) /\ IntegerOf(fIn.reset) * 1000 > NowMs
        THEN /\ fOut.value.def
             /\ fOut.value.val > 0
             /\ fOut.value.val * 1000 >= IntegerOf(fIn.reset) * 1000 - NowMs
             /\ (fOut.value.val - 1) * 1000 < IntegerOf(fIn.reset) * 1000 - NowMs
        ELSE fOut.value = Undef

C28_Witness ==
    /\ fPc = "getRetryAfter"
    /\ fOut.computed
    /\ fIn.retryAfter = HeaderText(<<"2">>)
    /\ fIn.reset = HeaderText(<<"7", "0">>)
    /\ fOut.value = Num(2)

\* ======================================================================
\* Provider selection (src/docs/api/ai-analyzer.md 17-45, 205-229)
\* ======================================================================
\* An environment variable is its text; an unset variable and an empty one are
\* both the empty text, which is falsy and equal to no provider name.
Truthy(text) == text # ""

Environments ==
    [AI_PROVIDER : {"", "openai", "anthropic", "OpenAI", "azure"},
     OPENAI_API_KEY : {"", "sk-openai"},
     ANTHROPIC_API_KEY : {"", "sk-ant"}]

\* config.provider of new AIAnalyzer(config); "" when it is not given
ConfiguredProviders == {"", "openai", "anthropic"}

\* a detection that looks at the keys before AI_PROVIDER
detectProviderKeysFirst(env) ==
    IF Truthy(env.OPENAI_API_KEY) /\ ~Truthy(env.ANTHROPIC_API_KEY) THEN "openai"
    ELSE IF Truthy(env.ANTHROPIC_API_KEY) /\ ~Truthy(env.OPENAI_API_KEY) THEN "anthropic"
    ELSE IF env.AI_PROVIDER = "openai" THEN "openai"
    ELSE IF env.AI_PROVIDER = "anthropic" THEN "anthropic"
    ELSE IF Truthy(env.OPENAI_API_KEY) THEN "openai"
    ELSE "anthropic"

detectProvider(env) ==
    IF env.AI_PROVIDER = "openai" THEN "openai"
    ELSE IF env.AI_PROVIDER = "anthropic" THEN "anthropic"
    ELSE IF Truthy(env.OPENAI_API_KEY) /\ ~Truthy(env.ANTHROPIC_API_KEY) THEN "openai"
    ELSE IF Truthy(env.ANTHROPIC_API_KEY) /\ ~Truthy(env.OPENAI_API_KEY) THEN "anthropic"
    ELSE IF Truthy(env.OPENAI_API_KEY) THEN "openai"
    ELSE "anthropic"

\* the provider of an analyzer: the configured one, else the detected one
SelectProvider(provider, env) ==
    IF provider # "" THEN provider ELSE detectProvider(env)

ProviderInit ==
    /\ fPc = "provider"
    /\ fIn \in [provider : ConfiguredProviders, env : Environments]
    /\ fOut = [selected |-> FALSE, provider |-> ""]

NewAIAnalyzer ==
    /\ fPc = "provider"
    /\ ~fOut.selected
    /\ fOut' = [selected |-> TRUE, provider |-> SelectProvider(fIn.provider, fIn.env)]
    /\ UNCHANGED <<fPc, fIn>>
    /\ UNCHANGED <<retryVars, backoffVars, discoverVars, opVars>>

ProviderNext == NewAIAnalyzer

InitProvider == ProviderInit /\ RetryIdle /\ BackoffIdle /\ DiscoverIdle /\ OpIdle
SpecProvider == InitProvider /\ [][ProviderNext]_vars

\* ----------------------------------------------------------------------
\* Properties of the provider selection (under SpecProvider)
\* ----------------------------------------------------------------------
ProviderSelected == fPc = "provider" /\ fOut.selected
HasOverride == ProviderSelected /\ fIn.env.AI_PROVIDER \in {"openai", "anthropic"}
HasOpenAIKey == ProviderSelected /\ fIn.env.OPENAI_API_KEY # ""
HasAnthropicKey == ProviderSelected /\ fIn.env.ANTHROPIC_API_KEY # ""

MCP == <<"m", "c", "p">>
MCP_SDK == "@modelcontextprotocol/sdk"

\* An optional key of the manifest: `present` tells whether it is there.
NoKey == [present |-> FALSE, value |-> {}]
KeyOf(value) == [present |-> TRUE, value |-> value]
NoText == [present |-> FALSE, value |-> <<>>]

\* bin is missing, a path, a map of command names to paths, or an empty text
BinValues == {"undefined", "path", "map", "empty text"}

Packages ==
    [name : {<<"m", "y", "-", "m", "c", "p", "-", "t", "o", "o", "l">>,
             <<"m", "c", "p", "-", "c", "l", "i", "-", "t", "o", "o", "l">>,
             <<"s", "q", "l", "-", "s", "e", "r", "v", "e", "r">>,
             <<"M", "C", "P", "-", "k", "i", "t">>},
     keywords : {NoKey, KeyOf({MCP}), KeyOf({<<"d", "b">>})},
     description : {NoText,
                    KeyOf(<<"T", "o", "o", "l", " ", "w", "i", "t", "h", " ", "M", "C", "P">>),
                    KeyOf(<<"C", "L", "I", " ", "t", "o", "o", "l">>)},
     dependencies : {NoKey, KeyOf({MCP_SDK}), KeyOf({"zod"})},
     bin : BinValues]

\* the detection without its last test, the dependency on the SDK
DetectMCPSupportIgnoringDependencies(pkg) ==
    \/ pkg.keywords.present /\ MCP \in pkg.keywords.value
    \/ Includes(pkg.name, MCP)
    \/ pkg.description.present /\ Includes(toLowerCase(pkg.description.value), MCP)

\* sources.md 128-133: whether the package is marked as MCP-compatible
DetectMCPSupport(pkg) ==
    \/ pkg.keywords.present /\ MCP \in pkg.keywords.value
    \/ Includes(pkg.name, MCP)
    \/ pkg.description.present /\ Includes(toLowerCase(pkg.description.value), MCP)
    \/ pkg.dependencies.present /\ MCP_SDK \in pkg.dependencies.value

\* `if (fullPkg.bin)`: a path and a map are truthy
HasBin(pkg) == pkg.bin \in {"path", "map"}

NoMcpConfig == [type |-> "undefined", command |-> "", args |-> <<>>]

\* sources.md 140-148
McpConfigOf(pkg) ==
    IF HasBin(pkg)
    THEN [type |-> "stdio", command |-> "npx", args |-> <<<<"-", "y">>, pkg.name>>]
    ELSE NoMcpConfig

NpmInit ==
    /\ fPc = "npm"
    /\ fIn \in Packages
    /\ fOut = [converted |-> FALSE, hasMCPSupport |-> FALSE, mcpConfig |-> NoMcpConfig,
               aiCalls |-> 0]

\* the adapter turns the fetched manifest into the fields of the tool
PackageToTool ==
    /\ fPc = "npm"
    /\ ~fOut.converted
    /\ fOut' = [fOut EXCEPT !.converted = TRUE,
                            !.hasMCPSupport = DetectMCPSupport(fIn),
                            !.mcpConfig = McpConfigOf(fIn)]
    /\ UNCHANGED <<fPc, fIn>>
    /\ UNCHANGED <<retryVars, backoffVars, discoverVars, opVars>>

NpmNext == PackageToTool

InitNpm == NpmInit /\ RetryIdle /\ BackoffIdle /\ DiscoverIdle /\ OpIdle
SpecNpm == InitNpm /\ [][NpmNext]_vars

\* ----------------------------------------------------------------------
\* Properties of the npm adapter (under SpecNpm)
\* ----------------------------------------------------------------------
DeclaresBin == fIn.bin \in {"path", "map"}
DependsOnSdk == fIn.dependencies.present /\ "@modelcontextprotocol/sdk" \in fIn.dependencies.value

ExponentialDelay == bIn.baseDelayMs * Pow2(bIn.attempt)

\* C31: calculateBackoff(a, base, max) is at least min(base * 2^a, max) and at
\* most min(1.3 * base * 2^a, max) rounded down; below the cap the jitter added
\* is less than 30% of the exponential delay.
C31_JitterWithinThirtyPercent ==
    (bPc = "computed" /\ bIn.baseDelayMs >= 0 /\ bIn.maxDelayMs >= 0) =>
        /\ bOut.atAttempt >= Min(ExponentialDelay, bIn.maxDelayMs)
        /\ bOut.atAttempt <= Min((13 * ExponentialDelay) \div 10, bIn.maxDelayMs)
        /\ (ExponentialDelay > 0 /\ bOut.atAttempt < bIn.maxDelayMs)
              => 10 * bOut.atAttempt < 13 * ExponentialDelay

C31_Witness ==
    /\ bPc = "computed"
    /\ bOut.k1 = JitterDen - 1
    /\ bIn.attempt > 0
    /\ bOut.atAttempt > ExponentialDelay
    /\ bOut.atAttempt < bIn.maxDelayMs
    /\ 10 * bOut.atAttempt >= 12 * ExponentialDelay

\* ----------------------------------------------------------------------
\* Further properties of withRetry and fetchWithRetry (under SpecRetry)
\* ----------------------------------------------------------------------
\* the responses the claim sets apart: 429, 5xx, and 403 with no quota left
RateLimitedOrServerError(response) ==
    \/ response.status = 429
    \/ response.status >= 500
    \/ response.status = 403 /\ response.remaining = "0"

\* C32: fetchWithRetry never resolves with a 429, a 5xx or a 403 whose
\* x-ratelimit-remaining is "0": such a response leads to a retry, or to a
\* raised error once the attempts are used up.  Every other response is
\* handed to the caller by the fetch that received it, with no fetch after it
\* and nothing raised.
C32_OnlyRateLimitAndServerErrorsRetried ==
    /\ (rMode = "fetch" /\ rPc = "resolved") =>
          ~RateLimitedOrServerError(rSettled.value.resp)
    /\ (rMode = "fetch" /\ lastOutcome.fetched = "resolved") =>
          IF RateLimitedOrServerError(lastOutcome.resp)
          THEN /\ rPc \in {"sleep", "call", "rejected"}
               /\ rSettled.state # "resolved"
               /\ lastError.kind \in {"RateLimitError", "NetworkError"}
               /\ rPc = "rejected" => (calls = MaxRetries + 1 /\ rSettled.error = lastError)
          ELSE /\ rPc = "resolved"
               /\ rSettled = Settled("resolved", Value(calls, lastOutcome.resp), NoError)
               /\ successes = 1
               /\ failures = calls - 1
               /\ calls = 1 => (sleeps = 0 /\ totalWaitMs = 0 /\ onRetryCalls = 0)

C32_Witness ==
    /\ rMode = "fetch"
    /\ rPc = "resolved"
    /\ calls = 1
    /\ sleeps = 0
    /\ rSettled.value.resp.status = 404
    /\ HasMaxRetries /\ MaxRetries >= 1

\* C33: whatever RetryOptions are passed (maxRetries 0, negative, or present
\* but undefined included), the operation is invoked at least once before
\* withRetry settles, and a rejection carries an error the operation raised.
C33_InvokedAtLeastOnce ==
    IsSettled =>
        /\ calls >= 1
        /\ rPc = "rejected" =>
              /\ rSettled.error.kind # "undefined"
              /\ rSettled.error = lastOutcome.error

\* ----------------------------------------------------------------------
\* Further properties of discover (under SpecDiscover)
\* ----------------------------------------------------------------------
InSeq(x, s) == \E i \in 1..Len(s) : s[i] = x

C35_AnalysisFailurePropagates ==
    Analyzing =>
        /\ oSt.aiCalls <= 1
        /\ (oPc \in {"returned", "rejected"} /\ oSt.aiCalls = 1 /\ ~oIn.credentials) =>
              /\ oPc = "rejected"
              /\ oSt.result = Rejected("NoAIClient")
        /\ (oPc \in {"returned", "rejected"} /\ oSt.aiCalls = 1 /\ oSt.quickImportCalls = 0) =>
              /\ oPc = "rejected"
              /\ oSt.result = Rejected(AnalysisFailure(oIn.credentials))
              /\ oSt.tool \in ToolUniverse

C35_Witness ==
    /\ oPc = "rejected"
    /\ oIn.method = "analyzeGitHubRepo"
    /\ oIn.credentials
    /\ oSt.tool.id = "github:a/eth-mcp"
    /\ oSt.aiCalls = 1
    /\ oSt.result = Rejected("AnalysisError")


\* ----------------------------------------------------------------------
\* Properties of the batched scan (under SpecLlms)
\* ----------------------------------------------------------------------
Discovering == oIn.mode = "discover"
LlmsReturned == oPc = "returned" /\ oSt.result.kind = "returned"

\* the last candidate of the batch that candidate u belongs to
BatchEndOf(u) == (((u - 1) \div batchSize) + 1) * batchSize

\* C36: candidates are checked in groups of at most 5 concurrent checks: at
\* most 5 checks are in flight at any time; only checks of the current batch
\* are in flight and no candidate of a later batch has been started; when the
\* loop is about to start a batch no check is pending; and once a check of a
\* batch has succeeded no candidate of a later batch is ever started.
C36_BatchesOfFiveInSequence ==
    Discovering =>
       /\ Cardinality(oSt.pending) <= batchSize
       /\ oSt.pending \subseteq Batch(oSt.i, oIn.n)
       /\ Len(oSt.scannedUrls) <= oSt.i + batchSize
       /\ oPc = "loop" => oSt.pending = {} /\ Len(oSt.scannedUrls) <= oSt.i
       /\ \A u \in oSt.succeeded : Len(oSt.scannedUrls) <= BatchEndOf(u)

C36_Witness ==
    /\ Discovering
    /\ LlmsReturned
    /\ oIn.n > batchSize
    /\ oSt.succeeded # {}
    /\ oSt.scannedUrls = <<1, 2, 3, 4, 5>>

\* C37: discoverLlmsTxt never ends by raising: whatever fetches were rejected
\* or aborted it stays in its loop or returns a result object, and the result
\* has found = false whenever no check succeeded.
C37_NetworkFailuresResolveNotFound ==
    Discovering =>
       /\ oPc \in {"loop", "awaiting", "returned"}
       /\ oPc = "returned" =>
             /\ oSt.result.kind = "returned"
             /\ oSt.succeeded = {} => oSt.result.found = FALSE
       /\ oPc # "returned" => oSt.result = NotSettled

C37_Witness ==
    /\ Discovering
    /\ LlmsReturned
    /\ oSt.fetchFailed
    /\ oSt.succeeded = {}
    /\ oSt.result.found = FALSE
    /\ Aborted(oSt.result.timeElapsed, oIn.timeoutMs)

\* C38: in every result of discoverLlmsTxt and of quickCheckLlmsTxt, found is
\* true exactly when url, llmsTxtUrl and type are all non-null, and when found
\* is false all three are null.
C38_ResultFieldsAgree ==
    LlmsReturned =>
       /\ oSt.result.found <=>
             (/\ oSt.result.url # 0
              /\ oSt.result.llmsTxtUrl # NullLink
              /\ oSt.result.type # "null")
       /\ ~oSt.result.found =>
             (/\ oSt.result.url = 0
              /\ oSt.result.llmsTxtUrl = NullLink
              /\ oSt.result.type = "null")

C38_Witness ==
    /\ LlmsReturned
    /\ oIn.mode = "quick"
    /\ ~oSt.result.found
    /\ oSt.result.scannedUrls = <<1>>
    /\ oSt.result.url = 0

\* C39: in every result of discoverLlmsTxt, scannedUrls is a prefix of the
\* candidate list made of whole batches, the check of every URL in it has been
\* made, and when found is true the returned url is in scannedUrls and is the
\* earliest candidate whose check succeeded.
C39_ScannedPrefixAndEarliestHit ==
    (Discovering /\ LlmsReturned) =>
       /\ Len(oSt.result.scannedUrls) <= oIn.n
       /\ \A k \in 1..Len(oSt.result.scannedUrls) : oSt.result.scannedUrls[k] = k
       /\ \/ Len(oSt.result.scannedUrls) = oIn.n
          \/ Len(oSt.result.scannedUrls) % batchSize = 0
       /\ \A k \in 1..Len(oSt.result.scannedUrls) :
             oSt.result.scannedUrls[k] \in oSt.checked
       /\ oSt.result.found =>
             /\ InSeq(oSt.result.url, oSt.result.scannedUrls)
             /\ oSt.result.url \in oSt.succeeded
             /\ \A u \in oSt.succeeded : oSt.result.url <= u
             /\ oSt.result.llmsTxtUrl.base = oSt.result.url

C39_Witness ==
    /\ Discovering
    /\ LlmsReturned
    /\ oSt.result.found
    /\ oSt.succeeded = {6, 7}
    /\ oSt.result.url = 6
    /\ Len(oSt.result.scannedUrls) = 7


\* ----------------------------------------------------------------------
\* Invalid connection descriptors (under SpecSchema)
\* ----------------------------------------------------------------------
\* the config carries a customParams.mcp that is no connection descriptor:
\* type http without a valid URL, type stdio without a command, another type
CarriesInvalidDescriptor(config) ==
    /\ IsObject(config)
    /\ IsObject(config.customParams)
    /\ IsObject(config.customParams.mcp)
    /\ ~ \/ /\ config.customParams.mcp.type = Str("http")
            /\ IsUrl(config.customParams.mcp.url)
         \/ /\ config.customParams.mcp.type = Str("stdio")
            /\ IsString(config.customParams.mcp.command)

\* C40: parseAIResponse rejects every object whose config carries a
\* customParams.mcp that is not a valid connection descriptor; it never accepts
\* one by dropping the descriptor and keeping the config as a standard entry.
C40_InvalidDescriptorRejected ==
    (/\ ParseCalled
     /\ IsObject(fIn)
     /\ CarriesInvalidDescriptor(fIn.config))
    => fOut.parse.threw

====
